---------------------------- MODULE Spec2Model ----------------------------
(***************************************************************************)
(* Snowmelt / DHW controller: relay mode resolution (relays.py), the       *)
(* periodic control evaluation (control.py) and the debounced setpoint     *)
(* persistence (setpoint_persistence.py).                                  *)
(*                                                                         *)
(* Optional[...] values are sequences of length at most one: <<>> is None  *)
(* and <<v>> is the value v.  Temperatures and setpoints are integers (the *)
(* control code only compares and subtracts them).                         *)
(***************************************************************************)
EXTENDS Integers, Sequences, FiniteSets, TLC

VARIABLES
    rc,           \* one RelayController driven directly through its public API
    rc_calls,     \* observer: the most recent calls on rc and what each did
    state,        \* ControlLogic.state, the authoritative ControlState
    cached_state, \* ControlLogic._cached_state, the published snapshot
    relay,        \* RelayManager.relays: relay id -> RelayController
    now,          \* the wall clock (datetime.now()), in minutes
    last_op,      \* observer: the kind of the most recent ControlLogic call
    persistence,  \* a SetpointPersistence and the Timers it has created
    files,        \* the state file, its .tmp sibling, the moves onto the former
    shutdown_call,\* the caller of SetpointPersistence.shutdown()
    last_save,    \* observer: the value of the last save() that was accepted
    n_saves,      \* observer: the number of save() calls so far
    early_fire,   \* observer: a save() was accepted after a Timer had fired
    sensor_mgr,   \* a SensorManager and the position of its _read_loop
    state_lock,   \* ControlLogic._state_lock: "free" or the kind of its holder
    heap,         \* the ControlState objects deepcopy has created, by identity
    cached_ref,   \* the identity of the object _cached_state refers to
    snapshots,    \* observer: the objects get_state() returned, as they were
    load_file,    \* the state file SetpointPersistence.load finds at start-up
    returned,     \* observer: what the most recent getter call returned
    main_loop,    \* the thread that calls ControlLogic.update periodically
    eq_call,      \* a caller of ControlLogic.set_equipment_mode
    locks,        \* each threading.Lock of the program: its holder, or "free"
    threads,      \* each thread's position in the lock operations of its code
    lock_order,   \* observer: the pairs <<lock held, lock acquired under it>>
    tick_call,    \* a tick taken one relay call at a time: what is left of it
    rm_shutdown,  \* the caller of RelayManager.shutdown()
    timer_read,   \* a caller of get_shutdown_timer_remaining(), line by line
    setter_call   \* the callers of the setters that save, and what they passed

relay_vars == <<rc, rc_calls>>

control_vars == <<state, cached_state, relay, now, last_op>>

persist_vars ==
    <<persistence, files, shutdown_call, last_save, n_saves, early_fire>>

sensor_vars == <<sensor_mgr>>

snapshot_vars == <<state_lock, heap, cached_ref, snapshots>>

lock_vars == <<locks, threads, lock_order>>

call_vars == <<tick_call, rm_shutdown, timer_read, setter_call>>

thread_vars == <<main_loop, eq_call, lock_vars, call_vars>>

aux_vars ==
    <<sensor_mgr, state_lock, heap, cached_ref, snapshots, load_file, returned,
      thread_vars>>

vars == <<rc, rc_calls, state, cached_state, relay, now, last_op,
          persistence, files, shutdown_call, last_save, n_saves, early_fire,
          sensor_mgr, state_lock, heap, cached_ref, snapshots, load_file,
          returned, main_loop, eq_call, locks, threads, lock_order,
          tick_call, rm_shutdown, timer_read, setter_call>>

None == <<>>
Some(v) == <<v>>
IsNone(o) == o = <<>>
Val(o) == o[1]

(***************************************************************************)
(* relays.py                                                               *)
(***************************************************************************)

\* class EquipmentMode
EquipmentMode == {"auto", "on", "off"}

\* RelayController.ACTIVE_LOW
ACTIVE_LOW == FALSE

\* Number of RelayController calls the observer rc_calls remembers.
HistoryLen == 2

\* RelayController.__init__: mode AUTO, auto_state False, de-energized, no
\* callback; GPIO.setup and _set_physical_state(False) drive the pin low.
RelayInit ==
    [mode |-> "auto", auto_state |-> FALSE, is_energized |-> FALSE,
     gpio |-> IF ACTIVE_LOW THEN "HIGH" ELSE "LOW", callback |-> FALSE]

\* RelayController._set_physical_state: one GPIO.output call, then the field.
_set_physical_state(rs, energize) ==
    [rs EXCEPT !.gpio = IF ACTIVE_LOW
                          THEN (IF energize THEN "LOW" ELSE "HIGH")
                          ELSE (IF energize THEN "HIGH" ELSE "LOW"),
               !.is_energized = energize]

\* new_state with the OFF branch dropped: an OFF relay follows auto_state.
new_state_off_follows_auto(rs) ==
    IF rs.mode = "on" THEN TRUE ELSE rs.auto_state

\* The value _update_state computes as new_state.
new_state(rs) ==
    IF rs.mode = "on" THEN TRUE
    ELSE IF rs.mode = "off" THEN FALSE
    ELSE rs.auto_state

\* _update_state without the comparison against the applied value: every
\* call writes the pin and notifies.
_update_state_no_debounce(rs) ==
    [relay    |-> _set_physical_state(rs, new_state(rs)),
     writes   |-> 1,
     notifies |-> IF rs.callback THEN 1 ELSE 0]

\* RelayController._update_state.  The result carries the controller after the
\* call, the number of GPIO writes and the number of callback invocations.
_update_state(rs) ==
    IF new_state(rs) # rs.is_energized
      THEN [relay    |-> _set_physical_state(rs, new_state(rs)),
            writes   |-> 1,
            notifies |-> IF rs.callback THEN 1 ELSE 0]
      ELSE [relay |-> rs, writes |-> 0, notifies |-> 0]

\* RelayController.set_mode (the body runs under the controller's lock).
set_mode(rs, mode) ==
    LET old_mode == rs.mode
        u == _update_state([rs EXCEPT !.mode = mode])
    IN  [relay    |-> u.relay,
         writes   |-> u.writes,
         notifies |-> u.notifies
                      + (IF old_mode # mode /\ rs.callback THEN 1 ELSE 0)]

\* RelayController.set_auto_state (the body runs under the controller's lock).
set_auto_state(rs, desired) ==
    _update_state([rs EXCEPT !.auto_state = desired])

\* RelayController.set_on_change_callback
set_on_change_callback(rs) == [rs EXCEPT !.callback = TRUE]

\* Observer: remember a call, keeping the HistoryLen most recent ones.
Remember(log, call) ==
    LET all == Append(log, call)
    IN  IF Len(all) > HistoryLen THEN Tail(all) ELSE all

CallRecord(op, before, res) ==
    [op |-> op, before |-> before, after |-> res.relay,
     writes |-> res.writes, notifies |-> res.notifies]

\* A caller invokes rc.set_mode(m).
RcSetMode ==
    \E m \in EquipmentMode :
        LET res == set_mode(rc, m)
        IN  /\ rc' = res.relay
            /\ rc_calls' = Remember(rc_calls, CallRecord("set_mode", rc, res))
            /\ UNCHANGED <<control_vars, persist_vars, aux_vars>>

\* A caller invokes rc.set_auto_state(s).
RcSetAutoState ==
    \E s \in BOOLEAN :
        LET res == set_auto_state(rc, s)
        IN  /\ rc' = res.relay
            /\ rc_calls' = Remember(rc_calls,
                                    CallRecord("set_auto_state", rc, res))
            /\ UNCHANGED <<control_vars, persist_vars, aux_vars>>

\* A caller registers a change callback on rc.
RcSetOnChangeCallback ==
    /\ ~rc.callback
    /\ rc' = set_on_change_callback(rc)
    /\ rc_calls' = rc_calls
    /\ UNCHANGED <<control_vars, persist_vars, aux_vars>>

RelayCallsInit ==
    /\ rc = RelayInit
    /\ rc_calls = <<>>

(***************************************************************************)
(* control.py                                                              *)
(***************************************************************************)

\* Largest temperature a probe reports in the model; readings are 1..MaxTemp.
MaxTemp == 3

\* Last minute of the modelled clock.
MaxTime == 2

\* timedelta(minutes=1) per clock step; hours * 60 in start_shutdown_timer.
MinutesPerHour == 60

Temps == 1..MaxTemp

\* The relay ids the control code asks the RelayManager for.
RelayIds == {"glycol_pump", "primary_pump", "bypass_valve", "dhw_pump"}

\* The sensor ids _update_temperatures looks up.
SensorIds == {"glycol_return", "glycol_supply", "heat_exchanger_in",
              "heat_exchanger_out", "dhw_tank"}

\* class Setpoints
Setpoints(high_temp, delta_t) == [high_temp |-> high_temp, delta_t |-> delta_t]

\* low_temp with the sign of delta_t flipped.
low_temp_plus_delta(sp) == sp.high_temp + sp.delta_t

\* Setpoints.low_temp
low_temp(sp) == sp.high_temp - sp.delta_t

\* class SensorReading, as far as the control code reads it.  A failed read
\* has valid False and no temperature (sensors.py read_temperature).
SensorReading(t) == [valid |-> TRUE, temperature_f |-> Some(t)]
FailedReading == [valid |-> FALSE, temperature_f |-> None]

\* "HH:MM" strings are pairs <<HH, MM>>; strptime(s, "%H:%M") accepts the
\* pairs that name a time of day and raises ValueError on the others.
StrptimeOk(s) == s[1] \in 0..23 /\ s[2] \in 0..59
Strptime(s) == s[1] * MinutesPerHour + s[2]

\* datetime.now().time(), as minutes since midnight.
TimeOfDay(t) == t % (24 * MinutesPerHour)

\* ControlState() as ControlLogic.__init__ leaves it: the dataclass defaults,
\* the setpoints and the eco schedule as main.py's config supplies them (here
\* the defaults' shape: a deadband for each, an overnight eco window).
ControlStateInit ==
    [snowmelt_enabled |-> FALSE,
     snowmelt_state   |-> "idle",
     glycol_setpoints |-> Setpoints(3, 2),
     dhw_enabled      |-> TRUE,
     dhw_state        |-> "idle",
     dhw_setpoints    |-> Setpoints(3, 2),
     eco_enabled      |-> TRUE,
     eco_active       |-> FALSE,
     eco_setpoints    |-> Setpoints(2, 1),
     eco_start        |-> <<22, 0>>,
     eco_end          |-> <<6, 0>>,
     shutdown_timer_enabled          |-> FALSE,
     shutdown_timer_end_time         |-> None,
     shutdown_timer_duration_minutes |-> 0,
     glycol_return_temp |-> None,
     glycol_supply_temp |-> None,
     hx_in_temp         |-> None,
     hx_out_temp        |-> None,
     dhw_tank_temp      |-> None,
     hx_delta_t         |-> None]

\* A snapshot that stays the one ControlLogic.__init__ published.
_update_cached_state_stale(st) == Some(ControlStateInit)

\* ControlLogic._update_cached_state: deepcopy(self.state).
_update_cached_state(st) == Some(st)

\* _is_eco_time with a window that includes its end.
_is_eco_time_end_included(st, t) ==
    IF ~st.eco_enabled THEN FALSE
    ELSE IF ~(StrptimeOk(st.eco_start) /\ StrptimeOk(st.eco_end)) THEN FALSE
    ELSE LET tod   == TimeOfDay(t)
             start == Strptime(st.eco_start)
             end   == Strptime(st.eco_end)
         IN  IF start > end
               THEN tod >= start \/ tod <= end
               ELSE start <= tod /\ tod <= end

\* ControlLogic._is_eco_time
_is_eco_time(st, t) ==
    IF ~st.eco_enabled THEN FALSE
    ELSE IF ~(StrptimeOk(st.eco_start) /\ StrptimeOk(st.eco_end)) THEN FALSE
    ELSE LET tod   == TimeOfDay(t)
             start == Strptime(st.eco_start)
             end   == Strptime(st.eco_end)
         IN  IF start > end
               THEN tod >= start \/ tod < end
               ELSE start <= tod /\ tod < end

\* _check_shutdown_timer comparing with > : the timer expires a minute late.
_check_shutdown_timer_late(st, t) ==
    IF ~st.shutdown_timer_enabled THEN st
    ELSE IF IsNone(st.shutdown_timer_end_time) THEN st
    ELSE IF t > Val(st.shutdown_timer_end_time)
      THEN [st EXCEPT !.snowmelt_enabled = FALSE,
                      !.shutdown_timer_enabled = FALSE,
                      !.shutdown_timer_end_time = None,
                      !.shutdown_timer_duration_minutes = 0]
      ELSE st

\* _check_shutdown_timer that switches DHW off as well when the timer expires.
_check_shutdown_timer_stops_dhw(st, t) ==
    IF ~st.shutdown_timer_enabled THEN st
    ELSE IF IsNone(st.shutdown_timer_end_time) THEN st
    ELSE IF t >= Val(st.shutdown_timer_end_time)
      THEN [st EXCEPT !.snowmelt_enabled = FALSE,
                      !.dhw_enabled = FALSE,
                      !.shutdown_timer_enabled = FALSE,
                      !.shutdown_timer_end_time = None,
                      !.shutdown_timer_duration_minutes = 0]
      ELSE st

\* ControlLogic._check_shutdown_timer
_check_shutdown_timer(st, t) ==
    IF ~st.shutdown_timer_enabled THEN st
    ELSE IF IsNone(st.shutdown_timer_end_time) THEN st
    ELSE IF t >= Val(st.shutdown_timer_end_time)
      THEN [st EXCEPT !.snowmelt_enabled = FALSE,
                      !.shutdown_timer_enabled = FALSE,
                      !.shutdown_timer_end_time = None,
                      !.shutdown_timer_duration_minutes = 0]
      ELSE st

\* get_temp inside ControlLogic._update_temperatures
get_temp(readings, sensor_id) ==
    IF sensor_id \in DOMAIN readings /\ readings[sensor_id].valid
      THEN readings[sensor_id].temperature_f
      ELSE None

\* Python truth of an Optional[float]: None and 0 are false.
Truthy(o) == ~IsNone(o) /\ Val(o) # 0

\* ControlLogic._update_temperatures
_update_temperatures(st, readings) ==
    LET hx_in  == get_temp(readings, "heat_exchanger_in")
        hx_out == get_temp(readings, "heat_exchanger_out")
    IN  [st EXCEPT !.glycol_return_temp = get_temp(readings, "glycol_return"),
                   !.glycol_supply_temp = get_temp(readings, "glycol_supply"),
                   !.hx_in_temp  = hx_in,
                   !.hx_out_temp = hx_out,
                   !.dhw_tank_temp = get_temp(readings, "dhw_tank"),
                   !.hx_delta_t = IF Truthy(hx_in) /\ Truthy(hx_out)
                                    THEN Some(Val(hx_in) - Val(hx_out))
                                    ELSE None]

\* RelayManager.get_relay(id) is not None
HasRelay(rl, id) == id \in DOMAIN rl

\* relay.set_auto_state(s) on the manager's relay id
RelaySetAuto(rl, id, s) == [rl EXCEPT ![id] = set_auto_state(rl[id], s).relay]

\* snowmelt_disabled that leaves the glycol pump's auto state alone.
snowmelt_disabled_pump_kept(st, rl) ==
    [state  |-> [st EXCEPT !.snowmelt_state = "idle"],
     relays |-> RelaySetAuto(RelaySetAuto(rl,
                   "primary_pump", FALSE), "bypass_valve", FALSE)]

\* _control_snowmelt, snowmelt not enabled: IDLE and the three relays' auto
\* state off.
snowmelt_disabled(st, rl) ==
    [state  |-> [st EXCEPT !.snowmelt_state = "idle"],
     relays |-> RelaySetAuto(RelaySetAuto(RelaySetAuto(rl,
                   "glycol_pump", FALSE), "primary_pump", FALSE),
                   "bypass_valve", FALSE)]

\* snowmelt_sensor_error that forgets the primary pump.
snowmelt_sensor_error_pump_kept(st, rl) ==
    [state  |-> [st EXCEPT !.snowmelt_state = "error"],
     relays |-> RelaySetAuto(rl, "bypass_valve", FALSE)]

\* _control_snowmelt, return_temp is None: ERROR, valve and primary pump off.
snowmelt_sensor_error(st, rl) ==
    [state  |-> [st EXCEPT !.snowmelt_state = "error"],
     relays |-> RelaySetAuto(RelaySetAuto(rl,
                   "bypass_valve", FALSE), "primary_pump", FALSE)]

\* _control_snowmelt, return_temp >= high_temp: BYPASS.
snowmelt_bypass(st, rl) ==
    [state  |-> [st EXCEPT !.snowmelt_state = "bypass"],
     relays |-> RelaySetAuto(RelaySetAuto(rl,
                   "bypass_valve", FALSE), "primary_pump", FALSE)]

\* snowmelt_heating that opens the valve and leaves the primary pump alone.
snowmelt_heating_valve_only(st, rl) ==
    [state  |-> [st EXCEPT !.snowmelt_state = "heating"],
     relays |-> RelaySetAuto(rl, "bypass_valve", TRUE)]

\* _control_snowmelt, return_temp <= low_temp: HEATING.
snowmelt_heating(st, rl) ==
    [state  |-> [st EXCEPT !.snowmelt_state = "heating"],
     relays |-> RelaySetAuto(RelaySetAuto(rl,
                   "bypass_valve", TRUE), "primary_pump", TRUE)]

\* ControlLogic._control_snowmelt; the result is the state and the relays.
_control_snowmelt(st, rl) ==
    IF ~(HasRelay(rl, "glycol_pump") /\ HasRelay(rl, "primary_pump")
         /\ HasRelay(rl, "bypass_valve"))
      THEN [state |-> st, relays |-> rl]
    ELSE IF ~st.snowmelt_enabled
      THEN snowmelt_disabled(st, rl)
    ELSE LET rl1 == RelaySetAuto(rl, "glycol_pump", TRUE)
             return_temp == st.glycol_return_temp
             setpoints == st.glycol_setpoints
         IN  IF IsNone(return_temp)
               THEN snowmelt_sensor_error(st, rl1)
             ELSE IF Val(return_temp) >= setpoints.high_temp
               THEN snowmelt_bypass(st, rl1)
             ELSE IF Val(return_temp) <= low_temp(setpoints)
               THEN snowmelt_heating(st, rl1)
             ELSE [state |-> st, relays |-> rl1]

\* dhw_sensor_error that leaves the pump's auto state alone.
dhw_sensor_error_pump_kept(st, rl) ==
    [state  |-> [st EXCEPT !.dhw_state = "error"],
     relays |-> rl]

\* _control_dhw, tank_temp is None: ERROR and the pump's auto state off.
dhw_sensor_error(st, rl) ==
    [state  |-> [st EXCEPT !.dhw_state = "error"],
     relays |-> RelaySetAuto(rl, "dhw_pump", FALSE)]

\* dhw_active_setpoints that ignores eco mode.
dhw_active_setpoints_no_eco(st) == st.dhw_setpoints

\* _control_dhw: the eco setpoints while eco mode is active.
dhw_active_setpoints(st) ==
    IF st.eco_active THEN st.eco_setpoints ELSE st.dhw_setpoints

\* A _control_dhw that tests tank_temp <= low_temp before tank_temp >=
\* high_temp.
_control_dhw_low_first(st, rl) ==
    IF ~HasRelay(rl, "dhw_pump")
      THEN [state |-> st, relays |-> rl]
    ELSE IF ~st.dhw_enabled
      THEN [state  |-> [st EXCEPT !.dhw_state = "idle"],
            relays |-> RelaySetAuto(rl, "dhw_pump", FALSE)]
    ELSE LET tank_temp == st.dhw_tank_temp
             setpoints == dhw_active_setpoints(st)
         IN  IF IsNone(tank_temp)
               THEN dhw_sensor_error(st, rl)
             ELSE IF Val(tank_temp) <= low_temp(setpoints)
               THEN [state  |-> [st EXCEPT !.dhw_state = "heating"],
                     relays |-> RelaySetAuto(rl, "dhw_pump", TRUE)]
             ELSE IF Val(tank_temp) >= setpoints.high_temp
               THEN [state  |-> [st EXCEPT !.dhw_state = "idle"],
                     relays |-> RelaySetAuto(rl, "dhw_pump", FALSE)]
             ELSE [state |-> st, relays |-> rl]

\* ControlLogic._control_dhw; the result is the state and the relays.
_control_dhw(st, rl) ==
    IF ~HasRelay(rl, "dhw_pump")
      THEN [state |-> st, relays |-> rl]
    ELSE IF ~st.dhw_enabled
      THEN [state  |-> [st EXCEPT !.dhw_state = "idle"],
            relays |-> RelaySetAuto(rl, "dhw_pump", FALSE)]
    ELSE LET tank_temp == st.dhw_tank_temp
             setpoints == dhw_active_setpoints(st)
         IN  IF IsNone(tank_temp)
               THEN dhw_sensor_error(st, rl)
             ELSE IF Val(tank_temp) >= setpoints.high_temp
               THEN [state  |-> [st EXCEPT !.dhw_state = "idle"],
                     relays |-> RelaySetAuto(rl, "dhw_pump", FALSE)]
             ELSE IF Val(tank_temp) <= low_temp(setpoints)
               THEN [state  |-> [st EXCEPT !.dhw_state = "heating"],
                     relays |-> RelaySetAuto(rl, "dhw_pump", TRUE)]
             ELSE [state |-> st, relays |-> rl]

\* The relays _control_snowmelt asks for.
SnowmeltRelays == {"glycol_pump", "primary_pump", "bypass_valve"}

\* An update that returns after _control_snowmelt when that found a relay
\* missing.
update_stops_at_missing(st, rl, readings, t) ==
    LET s1 == _update_temperatures(st, readings)
        s2 == [s1 EXCEPT !.eco_active = _is_eco_time(s1, t)]
        s3 == _check_shutdown_timer(s2, t)
        a  == _control_snowmelt(s3, rl)
    IN  IF \E id \in SnowmeltRelays : ~HasRelay(rl, id)
          THEN a
          ELSE _control_dhw(a.state, a.relays)

\* ControlLogic.update, from the readings read_all() returned to the snapshot
\* it publishes; the body after read_all() runs under the state lock.
update(st, rl, readings, t) ==
    LET s1 == _update_temperatures(st, readings)
        s2 == [s1 EXCEPT !.eco_active = _is_eco_time(s1, t)]
        s3 == _check_shutdown_timer(s2, t)
        a  == _control_snowmelt(s3, rl)
    IN  _control_dhw(a.state, a.relays)

(***************************************************************************)
(* What SensorManager.read_all() can return to a tick: a batch maps the    *)
(* probes that were read to their readings; the batch before the first     *)
(* sampling cycle (and a batch of an unconfigured probe) has no entry.     *)
(***************************************************************************)

\* None (no entry), a failed read, or a valid read of each temperature.
OptReadings ==
    {None, Some(FailedReading)} \cup {Some(SensorReading(t)) : t \in Temps}

\* The batch with these entries for the two control probes; the other three
\* probes read valid temperatures.
ReadingsOf(glycol_return, dhw_tank) ==
    LET entry == [id \in SensorIds |->
                    IF id = "glycol_return" THEN glycol_return
                    ELSE IF id = "dhw_tank" THEN dhw_tank
                    ELSE IF id = "heat_exchanger_out" THEN Some(SensorReading(1))
                    ELSE Some(SensorReading(2))]
    IN  [id \in {i \in SensorIds : ~IsNone(entry[i])} |-> Val(entry[id])]

\* Setpoints the UI and MQTT callers pass: a deadband, a one-degree deadband
\* and delta_t = 0 (MQTT's default when the payload has no delta).
SetpointInputs == {Setpoints(3, 2), Setpoints(2, 1), Setpoints(2, 0)}

\* "HH:MM" strings passed to set_eco_schedule.
EcoTimeInputs == {<<0, 1>>, <<0, 2>>}

\* (hours, minutes) passed to start_shutdown_timer.
TimerInputs == {<<0, 0>>, <<-1, 30>>, <<0, 1>>, <<0, 2>>, <<1, 0>>}

\* ControlLogic._notify_state_change with no listener registered (main.py
\* registers none): republish the snapshot.
Publish(st, op) ==
    /\ state' = st
    /\ cached_state' = _update_cached_state(st)
    /\ last_op' = op

\* Observer: the tick logs "Shutdown timer expired" (the condition of
\* _check_shutdown_timer's last branch).
TimerExpires(st, t) == _check_shutdown_timer(st, t) # st

\* Observer: the most recent ControlLogic call was a tick.
AfterTick(op) == op \in {"tick", "tick_expired"}

\* ControlLogic.update with the batch read_all() returned.
Tick(readings) ==
    LET r == update(state, relay, readings, now)
    IN  /\ Publish(r.state, IF TimerExpires(state, now) THEN "tick_expired"
                                                         ELSE "tick")
        /\ relay' = r.relays
        /\ UNCHANGED <<now, relay_vars, persist_vars, aux_vars>>

\* A tick in which only the glycol return probe's entry varies.
TickSnowmelt ==
    \E gr \in OptReadings : Tick(ReadingsOf(gr, Some(SensorReading(MaxTemp))))

\* A tick in which only the DHW tank probe's entry varies.
TickDhw ==
    \E tank \in OptReadings : Tick(ReadingsOf(Some(SensorReading(1)), tank))

\* A tick with any entries for the two control probes.
TickAny ==
    \E gr \in OptReadings, tank \in OptReadings : Tick(ReadingsOf(gr, tank))

\* What read_all() can hold for a heat exchanger probe: no entry, a failed
\* read, or a valid read of a temperature, 0 degrees included.
HxReadings ==
    {None, Some(FailedReading)}
      \cup {Some(SensorReading(t)) : t \in 0..MaxTemp}

\* The batch with these entries for the two heat exchanger probes; the other
\* three probes read valid temperatures.
HxReadingsOf(hx_in, hx_out) ==
    LET entry == [id \in SensorIds |->
                    IF id = "heat_exchanger_in" THEN hx_in
                    ELSE IF id = "heat_exchanger_out" THEN hx_out
                    ELSE Some(SensorReading(1))]
    IN  [id \in {i \in SensorIds : ~IsNone(entry[i])} |-> Val(entry[id])]

\* A tick in which the heat exchanger probes' entries vary.
TickHx ==
    \E hx_in \in HxReadings, hx_out \in HxReadings :
        Tick(HxReadingsOf(hx_in, hx_out))

\* A set_snowmelt_enabled that, on disabling, puts the subsystem in IDLE and
\* switches its relays' auto state off at once.
set_snowmelt_enabled_stops_relays(st, rl, enabled) ==
    IF enabled
      THEN [state |-> [st EXCEPT !.snowmelt_enabled = enabled], relays |-> rl]
      ELSE snowmelt_disabled([st EXCEPT !.snowmelt_enabled = enabled], rl)

\* ControlLogic.set_snowmelt_enabled, what it does to self.state and to the
\* relays.
set_snowmelt_enabled(st, rl, enabled) ==
    [state |-> [st EXCEPT !.snowmelt_enabled = enabled], relays |-> rl]

\* ControlLogic.set_snowmelt_enabled
SetSnowmeltEnabled ==
    \E enabled \in BOOLEAN :
        LET r == set_snowmelt_enabled(state, relay, enabled)
        IN  /\ Publish(r.state, "setter")
            /\ relay' = r.relays
            /\ UNCHANGED <<now, relay_vars, persist_vars, aux_vars>>

\* ControlLogic.set_dhw_enabled
SetDhwEnabled ==
    \E enabled \in BOOLEAN :
        /\ Publish([state EXCEPT !.dhw_enabled = enabled], "setter")
        /\ UNCHANGED <<relay, now, relay_vars, persist_vars, aux_vars>>

\* ControlLogic.set_eco_enabled
SetEcoEnabled ==
    \E enabled \in BOOLEAN :
        /\ Publish([state EXCEPT !.eco_enabled = enabled], "setter")
        /\ UNCHANGED <<relay, now, relay_vars, persist_vars, aux_vars>>

\* ControlLogic.set_glycol_setpoints (no persistence store attached, as in
\* main.py, so _save_setpoints does nothing).
SetGlycolSetpoints ==
    \E sp \in SetpointInputs :
        /\ Publish([state EXCEPT !.glycol_setpoints =
                        Setpoints(sp.high_temp, sp.delta_t)], "setter")
        /\ UNCHANGED <<relay, now, relay_vars, persist_vars, aux_vars>>

\* ControlLogic.set_dhw_setpoints
SetDhwSetpoints ==
    \E sp \in SetpointInputs :
        /\ Publish([state EXCEPT !.dhw_setpoints =
                        Setpoints(sp.high_temp, sp.delta_t)], "setter")
        /\ UNCHANGED <<relay, now, relay_vars, persist_vars, aux_vars>>

\* ControlLogic.set_eco_setpoints
SetEcoSetpoints ==
    \E sp \in SetpointInputs :
        /\ Publish([state EXCEPT !.eco_setpoints =
                        Setpoints(sp.high_temp, sp.delta_t)], "setter")
        /\ UNCHANGED <<relay, now, relay_vars, persist_vars, aux_vars>>

\* Setpoints with a deadband, with delta_t = 0 and with delta_t < 0, which
\* the setters accept as they accept any number.
InvertedInputs == {Setpoints(3, 2), Setpoints(2, 0), Setpoints(2, -1)}

\* ControlLogic.set_glycol_setpoints, delta_t <= 0 among its inputs.
SetGlycolSetpointsInverted ==
    \E sp \in InvertedInputs :
        /\ Publish([state EXCEPT !.glycol_setpoints =
                        Setpoints(sp.high_temp, sp.delta_t)], "setter")
        /\ UNCHANGED <<relay, now, relay_vars, persist_vars, aux_vars>>

\* ControlLogic.set_dhw_setpoints, delta_t <= 0 among its inputs.
SetDhwSetpointsInverted ==
    \E sp \in InvertedInputs :
        /\ Publish([state EXCEPT !.dhw_setpoints =
                        Setpoints(sp.high_temp, sp.delta_t)], "setter")
        /\ UNCHANGED <<relay, now, relay_vars, persist_vars, aux_vars>>

\* ControlLogic.set_eco_schedule
SetEcoSchedule ==
    \E start_time \in EcoTimeInputs, end_time \in EcoTimeInputs :
        /\ Publish([state EXCEPT !.eco_start = start_time,
                                 !.eco_end = end_time], "setter")
        /\ UNCHANGED <<relay, now, relay_vars, persist_vars, aux_vars>>

\* start_shutdown_timer that disarms the timer when the total is not positive.
start_shutdown_timer_disarms(st, hours, minutes, t) ==
    LET total_minutes == hours * MinutesPerHour + minutes
    IN  IF total_minutes <= 0
          THEN [st EXCEPT !.shutdown_timer_enabled = FALSE,
                          !.shutdown_timer_end_time = None,
                          !.shutdown_timer_duration_minutes = 0]
          ELSE [st EXCEPT !.shutdown_timer_duration_minutes = total_minutes,
                          !.shutdown_timer_end_time = Some(t + total_minutes),
                          !.shutdown_timer_enabled = TRUE]

\* ControlLogic.start_shutdown_timer, what it does to self.state.
start_shutdown_timer(st, hours, minutes, t) ==
    LET total_minutes == hours * MinutesPerHour + minutes
    IN  IF total_minutes <= 0
          THEN st
          ELSE [st EXCEPT !.shutdown_timer_duration_minutes = total_minutes,
                          !.shutdown_timer_end_time = Some(t + total_minutes),
                          !.shutdown_timer_enabled = TRUE]

\* ControlLogic.start_shutdown_timer: returns without publishing when the
\* total is not positive.
StartShutdownTimer ==
    \E hm \in TimerInputs :
        LET st == start_shutdown_timer(state, hm[1], hm[2], now)
        IN  /\ IF hm[1] * MinutesPerHour + hm[2] <= 0
                 THEN /\ state' = st
                      /\ last_op' = "timer_noop"
                      /\ UNCHANGED cached_state
                 ELSE Publish(st, "setter")
            /\ UNCHANGED <<relay, now, relay_vars, persist_vars, aux_vars>>

\* ControlLogic.cancel_shutdown_timer
CancelShutdownTimer ==
    /\ Publish([state EXCEPT !.shutdown_timer_enabled = FALSE,
                             !.shutdown_timer_end_time = None,
                             !.shutdown_timer_duration_minutes = 0], "setter")
    /\ UNCHANGED <<relay, now, relay_vars, persist_vars, aux_vars>>

\* The relays that route heat: the outputs a sensor failure must switch off.
HeatOutputs == {"primary_pump", "bypass_valve", "dhw_pump"}

\* ControlLogic.set_equipment_mode: RelayManager.set_mode, then republish.
SetEquipmentMode ==
    \E equipment_id \in HeatOutputs, mode \in EquipmentMode :
        /\ relay' = IF HasRelay(relay, equipment_id)
                      THEN [relay EXCEPT ![equipment_id] =
                                set_mode(relay[equipment_id], mode).relay]
                      ELSE relay
        /\ Publish(state, "setter")
        /\ UNCHANGED <<now, relay_vars, persist_vars, aux_vars>>

\* A minute passes.
AdvanceClock ==
    /\ now < MaxTime
    /\ now' = now + 1
    /\ last_op' = "clock"
    /\ UNCHANGED <<state, cached_state, relay, relay_vars, persist_vars, aux_vars>>

\* ControlLogic.__init__ after RelayManager.__init__ built the four relays.
ControlInit ==
    /\ state = ControlStateInit
    /\ cached_state = _update_cached_state(ControlStateInit)
    /\ relay = [id \in RelayIds |-> RelayInit]
    /\ now = 0
    /\ last_op = "init"

\* ControlLogic.__init__ over a RelayManager whose configuration lacks one of
\* the four relays.
ControlInitMissingRelay ==
    /\ state = ControlStateInit
    /\ cached_state = _update_cached_state(ControlStateInit)
    /\ \E missing \in RelayIds :
          relay = [id \in RelayIds \ {missing} |-> RelayInit]
    /\ now = 0
    /\ last_op = "init"

(***************************************************************************)
(* setpoint_persistence.py                                                 *)
(*                                                                         *)
(* Every block the code runs under SetpointPersistence._lock is one step;  *)
(* the write of the temporary file and the rename, which _do_save runs     *)
(* after releasing the lock, are steps of their own.  The disk does not    *)
(* fail here.                                                              *)
(***************************************************************************)

\* Number of save() calls made in the model.
MaxSaves == 3

\* Number of distinct setpoint records passed to save().
NumValues == 2

\* One threading.Timer per save() call.
TimerIds == 1..MaxSaves

SaveValues == 1..NumValues

\* A thread that runs, or may come to run, _do_save.  pc: "unused" (the Timer
\* is not created yet, the caller has not called), "waiting" (Timer.run waits
\* out the debounce interval), "cancelled", "do_save" (about to take the lock
\* in _do_save), "write" (lock released, about to open the temporary file),
\* "dump" (the file is open and truncated, about to dump the record and close),
\* "move" (about to rename it over the state file), "done".
\* fd: where the file the thread holds open is now: "closed" (no file open),
\* "tmp" (still at the temporary path), "state" (a move made it the state
\* file), "unlinked" (a later move replaced it).
Thread(pc, setpoints) == [pc |-> pc, setpoints |-> setpoints, fd |-> "closed"]

\* The content of a file that open(temp_file, 'w') has created or truncated
\* and that no dump has completed since.
EmptyFile == 0

\* A save() that keeps the value already pending.
save_pending_keeps_first(pending, setpoints) ==
    IF IsNone(pending) THEN Some(setpoints) ELSE pending

\* save(): self._pending_save = setpoints
save_pending(pending, setpoints) == Some(setpoints)

\* threading.Timer.cancel(): stops a timer that is still waiting; a timer
\* whose wait is over runs its function all the same.
cancel(t) == IF t.pc = "waiting" THEN Thread("cancelled", t.setpoints) ELSE t

\* self._save_timer.cancel() under "if self._save_timer is not None"
cancel_save_timer(ts, timer) ==
    IF IsNone(timer) THEN ts
    ELSE [ts EXCEPT ![Val(timer)] = cancel(ts[Val(timer)])]

\* SetpointPersistence.save: the whole body runs under the lock.  The result
\* is the pending value, the timer reference and the timers.
save(p, setpoints, new_timer) ==
    IF p._shutdown THEN p
    ELSE [p EXCEPT
            !._pending_save = save_pending(p._pending_save, setpoints),
            !.timers = [cancel_save_timer(p.timers, p._save_timer)
                          EXCEPT ![new_timer] = Thread("waiting", None)],
            !._save_timer = Some(new_timer)]

\* SetpointPersistence._do_save, the block under the lock: take the pending
\* value, or return when there is none.  t is the executing thread.
do_save_take(p, t) ==
    IF IsNone(p._pending_save)
      THEN [p |-> p, t |-> Thread("done", None)]
      ELSE [p |-> [p EXCEPT !._pending_save = None, !._save_timer = None],
            t |-> Thread("write", p._pending_save)]

\* _do_save: open(temp_file, 'w') creates the temporary file or truncates the
\* one that is there.
do_save_open(fs, t) ==
    [files |-> [fs EXCEPT !.tmp_file = Some(EmptyFile)],
     t     |-> [t EXCEPT !.pc = "dump", !.fd = "tmp"]]

\* _do_save: yaml.safe_dump into the open file, and the close that ends the
\* with block.  The bytes go to the file the thread opened, wherever a move
\* has taken it since.
do_save_write(fs, t) ==
    [files |-> CASE t.fd = "tmp"   -> [fs EXCEPT !.tmp_file = t.setpoints]
                 [] t.fd = "state" -> [fs EXCEPT !.state_file = t.setpoints]
                 [] OTHER          -> fs,
     t     |-> Thread("move", t.setpoints)]

\* _do_save: shutil.move(temp_file, state_file); with no temporary file the
\* move raises, and the except clause logs it.
do_save_move(fs, t) ==
    IF IsNone(fs.tmp_file)
      THEN [files |-> fs, t |-> Thread("done", None), moved |-> FALSE]
      ELSE [files |-> [fs EXCEPT !.state_file = fs.tmp_file,
                                 !.tmp_file = None,
                                 !.n_writes = fs.n_writes + 1],
            t     |-> Thread("done", None), moved |-> TRUE]

\* What a move of the temporary file over the state file does to the file
\* another thread holds open.
renamed(t, moved) ==
    IF ~moved THEN t
    ELSE [t EXCEPT !.fd = CASE t.fd = "tmp"   -> "state"
                            [] t.fd = "state" -> "unlinked"
                            [] OTHER          -> t.fd]

\* _do_save: the open, the dump or the move raises (the disk is full, the
\* directory is read-only); the except clause logs the error and returns.
do_save_except(fs, t) ==
    [files |-> [fs EXCEPT !.disk_failures = fs.disk_failures + 1],
     t     |-> Thread("done", None)]

\* SetpointPersistence.shutdown, the block under the lock.
shutdown_locked(p) ==
    [p EXCEPT !._shutdown = TRUE,
              !.timers = cancel_save_timer(p.timers, p._save_timer),
              !._save_timer = None]

\* SetpointPersistence.__init__; no Timer exists yet.
PersistenceInit ==
    [_pending_save |-> None, _save_timer |-> None, _shutdown |-> FALSE,
     timers |-> [i \in TimerIds |-> Thread("unused", None)]]

\* A timer thread is past its wait: its function has been called.
Fired(t) == t.pc \in {"do_save", "write", "dump", "move", "done"}

\* A caller of save(setpoints); the Timer it creates is a fresh one.
Save ==
    /\ n_saves < MaxSaves
    /\ \E setpoints \in SaveValues :
         /\ persistence' = save(persistence, setpoints, n_saves + 1)
         /\ last_save' = IF persistence._shutdown THEN last_save
                         ELSE Some(setpoints)
    /\ n_saves' = n_saves + 1
    /\ early_fire' = (early_fire \/
                        (~persistence._shutdown /\
                           \E i \in TimerIds : Fired(persistence.timers[i])))
    /\ UNCHANGED <<files, shutdown_call, relay_vars, control_vars, aux_vars>>

\* threading.Timer.run: the wait ended and the timer was not cancelled.
TimerFire ==
    \E i \in TimerIds :
        /\ persistence.timers[i].pc = "waiting"
        /\ persistence' = [persistence EXCEPT !.timers[i].pc = "do_save"]
        /\ UNCHANGED <<files, shutdown_call, last_save, n_saves, early_fire,
                       relay_vars, control_vars, aux_vars>>

\* A timer thread in _do_save: the block under the lock.
TimerDoSaveTake ==
    \E i \in TimerIds :
        /\ persistence.timers[i].pc = "do_save"
        /\ LET r == do_save_take(persistence, persistence.timers[i])
           IN  persistence' = [r.p EXCEPT !.timers[i] = r.t]
        /\ UNCHANGED <<files, shutdown_call, last_save, n_saves, early_fire,
                       relay_vars, control_vars, aux_vars>>

\* A timer thread in _do_save: the temporary file is opened for writing.
TimerDoSaveOpen ==
    \E i \in TimerIds :
        /\ persistence.timers[i].pc = "write"
        /\ LET r == do_save_open(files, persistence.timers[i])
           IN  /\ files' = r.files
               /\ persistence' = [persistence EXCEPT !.timers[i] = r.t]
        /\ UNCHANGED <<shutdown_call, last_save, n_saves, early_fire,
                       relay_vars, control_vars, aux_vars>>

\* A timer thread in _do_save: the record is dumped and the file closed.
TimerDoSaveWrite ==
    \E i \in TimerIds :
        /\ persistence.timers[i].pc = "dump"
        /\ LET r == do_save_write(files, persistence.timers[i])
           IN  /\ files' = r.files
               /\ persistence' = [persistence EXCEPT !.timers[i] = r.t]
        /\ UNCHANGED <<shutdown_call, last_save, n_saves, early_fire,
                       relay_vars, control_vars, aux_vars>>

\* A timer thread in _do_save: the temporary file is moved over the state file.
TimerDoSaveMove ==
    \E i \in TimerIds :
        /\ persistence.timers[i].pc = "move"
        /\ LET r == do_save_move(files, persistence.timers[i])
           IN  /\ files' = r.files
               /\ persistence' =
                    [persistence EXCEPT !.timers =
                       [j \in TimerIds |->
                          IF j = i THEN r.t
                          ELSE renamed(persistence.timers[j], r.moved)]]
               /\ shutdown_call' = renamed(shutdown_call, r.moved)
        /\ UNCHANGED <<last_save, n_saves, early_fire,
                       relay_vars, control_vars, aux_vars>>

\* A timer thread in _do_save: the disk fails it.
TimerDoSaveFail ==
    \E i \in TimerIds :
        /\ persistence.timers[i].pc \in {"write", "dump", "move"}
        /\ LET r == do_save_except(files, persistence.timers[i])
           IN  /\ files' = r.files
               /\ persistence' = [persistence EXCEPT !.timers[i] = r.t]
        /\ UNCHANGED <<shutdown_call, last_save, n_saves, early_fire,
                       relay_vars, control_vars, aux_vars>>

\* The caller of shutdown(): the block under the lock.
Shutdown ==
    /\ shutdown_call.pc = "unused"
    /\ persistence' = shutdown_locked(persistence)
    /\ shutdown_call' = Thread("do_save", None)
    /\ UNCHANGED <<files, last_save, n_saves, early_fire,
                   relay_vars, control_vars, aux_vars>>

\* shutdown() in its _do_save: the block under the lock.
ShutdownDoSaveTake ==
    /\ shutdown_call.pc = "do_save"
    /\ LET r == do_save_take(persistence, shutdown_call)
       IN  /\ persistence' = r.p
           /\ shutdown_call' = r.t
    /\ UNCHANGED <<files, last_save, n_saves, early_fire,
                   relay_vars, control_vars, aux_vars>>

\* shutdown() in its _do_save: the temporary file is opened for writing.
ShutdownDoSaveOpen ==
    /\ shutdown_call.pc = "write"
    /\ LET r == do_save_open(files, shutdown_call)
       IN  /\ files' = r.files
           /\ shutdown_call' = r.t
    /\ UNCHANGED <<persistence, last_save, n_saves, early_fire,
                   relay_vars, control_vars, aux_vars>>

\* shutdown() in its _do_save: the record is dumped and the file closed.
ShutdownDoSaveWrite ==
    /\ shutdown_call.pc = "dump"
    /\ LET r == do_save_write(files, shutdown_call)
       IN  /\ files' = r.files
           /\ shutdown_call' = r.t
    /\ UNCHANGED <<persistence, last_save, n_saves, early_fire,
                   relay_vars, control_vars, aux_vars>>

\* shutdown() in its _do_save: the move; after it shutdown() returns.
ShutdownDoSaveMove ==
    /\ shutdown_call.pc = "move"
    /\ LET r == do_save_move(files, shutdown_call)
       IN  /\ files' = r.files
           /\ shutdown_call' = r.t
           /\ persistence' =
                [persistence EXCEPT !.timers =
                   [j \in TimerIds |-> renamed(persistence.timers[j], r.moved)]]
    /\ UNCHANGED <<last_save, n_saves, early_fire, relay_vars, control_vars, aux_vars>>

\* shutdown() in its _do_save: the disk fails it; shutdown() returns.
ShutdownDoSaveFail ==
    /\ shutdown_call.pc \in {"write", "dump", "move"}
    /\ LET r == do_save_except(files, shutdown_call)
       IN  /\ files' = r.files
           /\ shutdown_call' = r.t
    /\ UNCHANGED <<persistence, last_save, n_saves, early_fire,
                   relay_vars, control_vars, aux_vars>>

\* A fresh SetpointPersistence over a state file that does not exist yet.
PersistInit ==
    /\ persistence = PersistenceInit
    /\ files = [state_file |-> None, tmp_file |-> None, n_writes |-> 0,
                disk_failures |-> 0]
    /\ shutdown_call = Thread("unused", None)
    /\ last_save = None
    /\ n_saves = 0
    /\ early_fire = FALSE

(***************************************************************************)
(* sensors.py: the sampling loop and read_all                              *)
(***************************************************************************)

\* Number of sampling cycles the loop runs in the model.
MaxCycles == 2

\* SensorManager.sensors in the order of the configuration: the order in
\* which _read_loop reads the probes.
ProbeOrder == <<"glycol_return", "glycol_supply", "heat_exchanger_in",
                "heat_exchanger_out", "dhw_tank">>

\* What TemperatureSensor.read_temperature can return.
ProbeOutcomes == {SensorReading(1), FailedReading}

\* Observer: a reading, marked with the sampling cycle that took it.
Sampled(reading, cycle) ==
    [valid |-> reading.valid, temperature_f |-> reading.temperature_f,
     cycle |-> cycle]

\* A dict with no entry.
EmptyBatch == [id \in {} |-> Sampled(FailedReading, 0)]

\* d[key] = value on a dict
DictSet(d, key, value) ==
    [k \in DOMAIN d \cup {key} |-> IF k = key THEN value ELSE d[k]]

\* SensorManager.__init__, the thread about to enter _read_loop.  pc: "idle"
\* (at the while condition, or in _stop_event.wait(2.0) before it), "read" (in
\* the for loop over the probes), "publish" (about to take the lock and
\* publish), "terminated" (_read_loop has returned).  Observers: stopped_at
\* (the cycle and pc at which shutdown() set the stop signal), late_publishes
\* (batches published after it), raised (cycles an exception ended).
SensorManagerInit ==
    [_cached_readings |-> EmptyBatch, new_readings |-> EmptyBatch,
     cycle |-> 0, pc |-> "idle", _stop_event |-> FALSE, stopped_at |-> None,
     late_publishes |-> 0, raised |-> 0]

\* A loop condition that ignores the stop signal.
loop_continues_always(mgr) == TRUE

\* _read_loop: while not self._stop_event.is_set()
loop_continues(mgr) == ~mgr._stop_event

\* A loop body that stores each reading in the published dict as well.
store_reading_in_cache(mgr, sensor_id, reading) ==
    [mgr EXCEPT
       !.new_readings = DictSet(mgr.new_readings, sensor_id, reading),
       !._cached_readings = DictSet(mgr._cached_readings, sensor_id, reading)]

\* _read_loop: new_readings[sensor_id] = reading
store_reading(mgr, sensor_id, reading) ==
    [mgr EXCEPT !.new_readings = DictSet(mgr.new_readings, sensor_id, reading)]

\* _read_loop, under the lock: self._cached_readings = deepcopy(new_readings)
publish_readings(mgr) == [mgr EXCEPT !._cached_readings = mgr.new_readings]

\* A read_all that returns the batch the loop is still filling.
read_all_unpublished(mgr) == mgr.new_readings

\* SensorManager.read_all: deepcopy(self._cached_readings) under the lock.
read_all(mgr) == mgr._cached_readings

\* What read_temperature finds at device_path: no file ("missing"), a first
\* line without YES or fewer than two lines ("crc_failed"), a second line
\* without t= ("no_value"), characters after t= that float() rejects
\* ("unparsable"), or a good sample ("ok").  Each probe takes the states
\* listed for it; every state is taken by some probe.
DeviceStates(sensor_id) ==
    CASE sensor_id = "glycol_return"      -> {"ok", "missing"}
      [] sensor_id = "glycol_supply"      -> {"ok", "crc_failed"}
      [] sensor_id = "heat_exchanger_in"  -> {"ok", "no_value"}
      [] sensor_id = "heat_exchanger_out" -> {"ok", "unparsable"}
      [] sensor_id = "dhw_tank"           -> {"ok", "missing", "unparsable"}

\* A SensorReading with its error field.
ProbeReading(valid, temperature_f, error) ==
    [valid |-> valid, temperature_f |-> temperature_f, error |-> error]

\* A read_temperature whose except clause gives no cause.
read_temperature_no_cause(device) ==
    CASE device = "missing" ->
           ProbeReading(FALSE, None, Some("Sensor not found at device_path"))
      [] device = "crc_failed" ->
           ProbeReading(FALSE, None, Some("CRC check failed"))
      [] device = "no_value" ->
           ProbeReading(FALSE, None, Some("Temperature value not found"))
      [] device = "unparsable" ->
           ProbeReading(FALSE, None, None)
      [] device = "ok" ->
           ProbeReading(TRUE, Some(1), None)

\* TemperatureSensor.read_temperature: the three early returns, the except
\* clause (float(temp_string) raises ValueError, error is str(e)), and the
\* valid reading.
read_temperature(device) ==
    CASE device = "missing" ->
           ProbeReading(FALSE, None, Some("Sensor not found at device_path"))
      [] device = "crc_failed" ->
           ProbeReading(FALSE, None, Some("CRC check failed"))
      [] device = "no_value" ->
           ProbeReading(FALSE, None, Some("Temperature value not found"))
      [] device = "unparsable" ->
           ProbeReading(FALSE, None,
                        Some("could not convert string to float"))
      [] device = "ok" ->
           ProbeReading(TRUE, Some(1), None)

\* Observer: a reading with its error, marked with the sampling cycle that
\* took it and the state the device was in.
SampledDevice(reading, cycle, device) ==
    [valid |-> reading.valid, temperature_f |-> reading.temperature_f,
     error |-> reading.error, cycle |-> cycle, device |-> device]

\* _read_loop: a cycle begins with new_readings = {}.
SensorStartCycle ==
    /\ sensor_mgr.pc = "idle"
    /\ loop_continues(sensor_mgr)
    /\ sensor_mgr.cycle < MaxCycles
    /\ sensor_mgr' = [sensor_mgr EXCEPT !.new_readings = EmptyBatch,
                                        !.cycle = sensor_mgr.cycle + 1,
                                        !.pc = "read"]
    /\ UNCHANGED <<state_lock, heap, cached_ref, snapshots, load_file,
                   returned, relay_vars, control_vars, persist_vars, thread_vars>>

\* _read_loop: the next probe is read and its reading stored.
SensorReadProbe ==
    /\ sensor_mgr.pc = "read"
    /\ LET k == Cardinality(DOMAIN sensor_mgr.new_readings) + 1
       IN  \E reading \in ProbeOutcomes :
             LET mgr == store_reading(sensor_mgr, ProbeOrder[k],
                                      Sampled(reading, sensor_mgr.cycle))
             IN  sensor_mgr' = [mgr EXCEPT !.pc = IF k = Len(ProbeOrder)
                                                    THEN "publish" ELSE "read"]
    /\ UNCHANGED <<state_lock, heap, cached_ref, snapshots, load_file,
                   returned, relay_vars, control_vars, persist_vars, thread_vars>>

\* _read_loop: the next probe's device is read, whatever state it is in, and
\* the reading stored.
SensorReadDevice ==
    /\ sensor_mgr.pc = "read"
    /\ LET k == Cardinality(DOMAIN sensor_mgr.new_readings) + 1
       IN  \E device \in DeviceStates(ProbeOrder[k]) :
             LET mgr == store_reading(sensor_mgr, ProbeOrder[k],
                            SampledDevice(read_temperature(device),
                                          sensor_mgr.cycle, device))
             IN  sensor_mgr' = [mgr EXCEPT !.pc = IF k = Len(ProbeOrder)
                                                    THEN "publish" ELSE "read"]
    /\ UNCHANGED <<state_lock, heap, cached_ref, snapshots, load_file,
                   returned, relay_vars, control_vars, persist_vars, thread_vars>>

\* _read_loop: the batch is published under the lock; the loop then waits.
SensorPublish ==
    /\ sensor_mgr.pc = "publish"
    /\ sensor_mgr' = [publish_readings(sensor_mgr) EXCEPT
                        !.pc = "idle",
                        !.late_publishes =
                            IF sensor_mgr._stop_event
                              THEN sensor_mgr.late_publishes + 1
                              ELSE sensor_mgr.late_publishes]
    /\ UNCHANGED <<state_lock, heap, cached_ref, snapshots, load_file,
                   returned, relay_vars, control_vars, persist_vars, thread_vars>>

\* _read_loop: an exception inside the try block ends the cycle; the except
\* clause logs it and the loop goes on to its wait, nothing published.
SensorCycleRaises ==
    /\ sensor_mgr.pc \in {"read", "publish"}
    /\ sensor_mgr' = [sensor_mgr EXCEPT !.pc = "idle",
                                        !.raised = sensor_mgr.raised + 1]
    /\ UNCHANGED <<state_lock, heap, cached_ref, snapshots, load_file,
                   returned, relay_vars, control_vars, persist_vars, thread_vars>>

\* SensorManager.shutdown: self._stop_event.set(); the join that follows
\* waits for the thread at most 3 seconds and changes nothing.
SensorShutdown ==
    /\ ~sensor_mgr._stop_event
    /\ sensor_mgr' = [sensor_mgr EXCEPT
                        !._stop_event = TRUE,
                        !.stopped_at = Some([cycle |-> sensor_mgr.cycle,
                                             pc |-> sensor_mgr.pc])]
    /\ UNCHANGED <<state_lock, heap, cached_ref, snapshots, load_file,
                   returned, relay_vars, control_vars, persist_vars, thread_vars>>

\* _read_loop: the wait returns, the while condition finds the stop signal set
\* and the function returns.
SensorExit ==
    /\ sensor_mgr.pc = "idle"
    /\ ~loop_continues(sensor_mgr)
    /\ sensor_mgr' = [sensor_mgr EXCEPT !.pc = "terminated"]
    /\ UNCHANGED <<state_lock, heap, cached_ref, snapshots, load_file,
                   returned, relay_vars, control_vars, persist_vars, thread_vars>>

\* ControlLogic.update: the tick, with the batch self.sensors.read_all()
\* returns at that moment.
TickReadAll == Tick(read_all(sensor_mgr))

\* A caller of read_all(), at any point of the loop outside its locked block.
ReadAll ==
    /\ returned' = [op |-> "read_all", value |-> read_all(sensor_mgr)]
    /\ UNCHANGED <<sensor_mgr, state_lock, heap, cached_ref, snapshots,
                   load_file, relay_vars, control_vars, persist_vars, thread_vars>>

(***************************************************************************)
(* control.py: the state lock and the identity of the published snapshot.  *)
(*                                                                         *)
(* A handler is two steps here: the block that mutates self.state with the *)
(* lock held, and _notify_state_change followed by the release.  Objects   *)
(* made by deepcopy are entries of heap; reference 0 is self.state itself. *)
(***************************************************************************)

\* Number of ControlState objects deepcopy creates in the model, the one of
\* ControlLogic.__init__ included.
MaxCopies == 3

\* A "copy" that is the object itself.
alias_state(hp, st) == [heap |-> hp, ref |-> 0]

\* deepcopy(self.state): a new object with the fields of st.
deepcopy(hp, st) == [heap |-> Append(hp, st), ref |-> Len(hp) + 1]

\* The fields of the object a reference names.
Deref(hp, st, ref) == IF ref = 0 THEN st ELSE hp[ref]

\* A get_state that takes the state lock on every call.
get_state_always_locks(cached) == TRUE

\* get_state: the branch that takes the state lock is reached only when
\* _cached_state is None.
get_state_needs_lock(cached) == IsNone(cached)

\* What the setters leave in self.state before they republish (a
\* start_shutdown_timer call here has a positive total).
SetterResults(st, t) ==
    {[st EXCEPT !.snowmelt_enabled = e] : e \in BOOLEAN}
    \cup {[st EXCEPT !.dhw_enabled = e] : e \in BOOLEAN}
    \cup {[st EXCEPT !.eco_enabled = e] : e \in BOOLEAN}
    \cup {[st EXCEPT !.glycol_setpoints = Setpoints(sp.high_temp, sp.delta_t)]
            : sp \in SetpointInputs}
    \cup {[st EXCEPT !.dhw_setpoints = Setpoints(sp.high_temp, sp.delta_t)]
            : sp \in SetpointInputs}
    \cup {[st EXCEPT !.eco_setpoints = Setpoints(sp.high_temp, sp.delta_t)]
            : sp \in SetpointInputs}
    \cup {[st EXCEPT !.eco_start = se[1], !.eco_end = se[2]]
            : se \in EcoTimeInputs \X EcoTimeInputs}
    \cup {start_shutdown_timer(st, hm[1], hm[2], t)
            : hm \in {x \in TimerInputs : x[1] * MinutesPerHour + x[2] > 0}}
    \cup {[st EXCEPT !.shutdown_timer_enabled = FALSE,
                     !.shutdown_timer_end_time = None,
                     !.shutdown_timer_duration_minutes = 0]}
    \cup {st}

\* A setter (set_equipment_mode included, which mutates nothing) holding the
\* state lock, before its _notify_state_change.
SetterLocked ==
    /\ state_lock = "free"
    /\ Len(heap) < MaxCopies
    /\ \E st \in SetterResults(state, now) :
         /\ state' = st
         /\ cached_state' = Some(Deref(heap, st, cached_ref))
    /\ state_lock' = "setter"
    /\ last_op' = "setter"
    /\ UNCHANGED <<relay, now, heap, cached_ref, snapshots, sensor_mgr,
                   load_file, returned, relay_vars, persist_vars, thread_vars>>

\* start_shutdown_timer with a total that is not positive: the lock is taken
\* and released with nothing done in between.
StartShutdownTimerRejected ==
    /\ state_lock = "free"
    /\ \E hm \in {x \in TimerInputs : x[1] * MinutesPerHour + x[2] <= 0} :
         state' = start_shutdown_timer(state, hm[1], hm[2], now)
    /\ last_op' = "timer_noop"
    /\ UNCHANGED <<cached_state, relay, now, snapshot_vars, sensor_mgr,
                   load_file, returned, relay_vars, persist_vars, thread_vars>>

\* ControlLogic.update holding the state lock, before its _notify_state_change.
TickLocked ==
    /\ state_lock = "free"
    /\ Len(heap) < MaxCopies
    /\ \E gr \in OptReadings, tank \in OptReadings :
         LET r == update(state, relay, ReadingsOf(gr, tank), now)
         IN  /\ state' = r.state
             /\ relay' = r.relays
             /\ cached_state' = Some(Deref(heap, r.state, cached_ref))
    /\ state_lock' = "tick"
    /\ last_op' = "tick"
    /\ UNCHANGED <<now, heap, cached_ref, snapshots, sensor_mgr,
                   load_file, returned, relay_vars, persist_vars, thread_vars>>

\* _notify_state_change with the lock held (no listener registered), and the
\* release of the lock that ends the with block.
NotifyRelease ==
    /\ state_lock # "free"
    /\ LET c == deepcopy(heap, state)
       IN  /\ heap' = c.heap
           /\ cached_ref' = c.ref
    /\ cached_state' = _update_cached_state(state)
    /\ state_lock' = "free"
    /\ UNCHANGED <<state, relay, now, last_op, snapshots, sensor_mgr,
                   load_file, returned, relay_vars, persist_vars, thread_vars>>

\* ControlLogic.get_state, called from a thread that holds no lock.
GetState ==
    /\ ~get_state_needs_lock(cached_state) \/ state_lock = "free"
    /\ LET snapshot == [ref |-> cached_ref, value |-> Val(cached_state)]
       IN  /\ snapshots' = snapshots \cup {snapshot}
           /\ returned' = [op |-> "get_state", value |-> snapshot,
                           lock |-> state_lock]
    /\ UNCHANGED <<state_lock, heap, cached_ref, sensor_mgr, load_file,
                   relay_vars, control_vars, persist_vars, thread_vars>>

(***************************************************************************)
(* control.py: get_shutdown_timer_remaining                                *)
(***************************************************************************)

\* timedelta.total_seconds(): seconds in one step of the model clock.
SecondsPerMinute == 60

\* The instants datetime.now() can return within one second.
TicksPerSecond == 2

\* int(x) for x = num / den: the fraction is dropped, towards zero.
IntTrunc(num, den) == IF num >= 0 THEN num \div den ELSE -((-num) \div den)

\* max(a, b)
Max(a, b) == IF a >= b THEN a ELSE b

\* The model clock's minute t, and frac ticks later, as an instant.
Instant(t, frac) == t * SecondsPerMinute * TicksPerSecond + frac

\* get_shutdown_timer_remaining without the max(0, ...).
get_shutdown_timer_remaining_no_max(st, at) ==
    IF ~st.shutdown_timer_enabled \/ IsNone(st.shutdown_timer_end_time)
      THEN None
      ELSE Some(IntTrunc(Instant(Val(st.shutdown_timer_end_time), 0) - at,
                         TicksPerSecond))

\* ControlLogic.get_shutdown_timer_remaining, called at instant at.
get_shutdown_timer_remaining(st, at) ==
    IF ~st.shutdown_timer_enabled \/ IsNone(st.shutdown_timer_end_time)
      THEN None
      ELSE Some(Max(0, IntTrunc(Instant(Val(st.shutdown_timer_end_time), 0)
                                  - at, TicksPerSecond)))

\* A caller of get_shutdown_timer_remaining(), between two handlers.
GetShutdownTimerRemaining ==
    /\ \E frac \in 0..(TicksPerSecond - 1) :
         returned' = [op    |-> "get_shutdown_timer_remaining",
                      armed |-> state.shutdown_timer_enabled,
                      end   |-> state.shutdown_timer_end_time,
                      at    |-> Instant(now, frac),
                      value |-> get_shutdown_timer_remaining(
                                    state, Instant(now, frac))]
    /\ UNCHANGED <<sensor_mgr, snapshot_vars, load_file,
                   relay_vars, control_vars, persist_vars, thread_vars>>

(***************************************************************************)
(* setpoint_persistence.py: load and PersistedSetpoints.from_dict          *)
(***************************************************************************)

\* The fields of PersistedSetpoints, in the order of the dataclass.
PersistedKeys ==
    <<"glycol_high_temp", "glycol_delta_t", "dhw_high_temp", "dhw_delta_t",
      "eco_high_temp", "eco_delta_t", "eco_start", "eco_end">>

KeySet == {PersistedKeys[i] : i \in DOMAIN PersistedKeys}

\* The fields from_dict passes through float(); the other two go through str().
FloatKeys == KeySet \ {"eco_start", "eco_end"}

KeyNo(key) == CHOOSE i \in DOMAIN PersistedKeys : PersistedKeys[i] = key

\* A value yaml.safe_load can give a key: a number, a text, or null (the key
\* with nothing after the colon).  v tells the values of one kind apart.
YamlValue(kind, v) == [kind |-> kind, v |-> v]

\* float(x) raises TypeError on None and ValueError on a text that is not a
\* number (the texts here are not).
FloatRaises(x) == x.kind \notin {"number", "nan"}

\* float(x): a number, and nan, as they are.
Float(x) == IF x.kind = "nan" THEN x ELSE YamlValue("number", x.v)

\* str(x)
Str(x) == YamlValue("text", x.v)

\* The defaults ControlLogic._load_setpoints passes: the configured setpoints
\* and eco schedule.
ConfigDefaults ==
    [glycol |-> [high_temp |-> YamlValue("number", 11),
                 delta_t   |-> YamlValue("number", 12)],
     dhw    |-> [high_temp |-> YamlValue("number", 13),
                 delta_t   |-> YamlValue("number", 14)],
     eco    |-> [high_temp |-> YamlValue("number", 15),
                 delta_t   |-> YamlValue("number", 16)],
     eco_schedule |-> [start_time |-> YamlValue("text", 17),
                       end_time   |-> YamlValue("text", 18)]]

\* load: the dict "merged" as built from the defaults.
merged_defaults(defaults) ==
    [key \in KeySet |->
        CASE key = "glycol_high_temp" -> defaults.glycol.high_temp
          [] key = "glycol_delta_t"   -> defaults.glycol.delta_t
          [] key = "dhw_high_temp"    -> defaults.dhw.high_temp
          [] key = "dhw_delta_t"      -> defaults.dhw.delta_t
          [] key = "eco_high_temp"    -> defaults.eco.high_temp
          [] key = "eco_delta_t"      -> defaults.eco.delta_t
          [] key = "eco_start"        -> defaults.eco_schedule.start_time
          [] key = "eco_end"          -> defaults.eco_schedule.end_time]

\* The state file as load finds it: "absent"; "unreadable" (open or
\* yaml.safe_load raises); "empty" (safe_load gives None); "scalar" (a
\* document that is not a mapping); "mapping", with data its keys and values.
StateFile(kind, data) == [kind |-> kind, data |-> data]

NoData == [key \in {} |-> YamlValue("null", 0)]

\* What a file can hold for a key: nothing ("absent"), a value of the kind
\* the field has ("typed": a number for a float field, a text for a text
\* field), or another value ("other": null for a float field, a number for a
\* text field).
FileValue(key, choice) ==
    IF key \in FloatKeys
      THEN IF choice = "typed" THEN YamlValue("number", KeyNo(key))
                               ELSE YamlValue("null", 0)
      ELSE IF choice = "typed" THEN YamlValue("text", KeyNo(key))
                               ELSE YamlValue("number", KeyNo(key))

\* The mappings over the subsets of the eight keys.
Mappings ==
    {[key \in {k \in KeySet : c[k] # "absent"} |-> FileValue(key, c[key])]
       : c \in [KeySet -> {"absent", "typed", "other"}]}

LoadFiles ==
    {StateFile(kind, NoData) : kind \in {"absent", "unreadable", "empty",
                                         "scalar"}}
    \cup {StateFile("mapping", data) : data \in Mappings}

\* load, lines 84-100: the persisted values override the defaults, key by key,
\* when the file exists, is read and parsed, and is a mapping.
merge_persisted(merged, file) ==
    IF file.kind = "mapping"
      THEN [key \in KeySet |-> IF key \in DOMAIN file.data
                                 THEN file.data[key] ELSE merged[key]]
      ELSE merged

\* PersistedSetpoints.from_dict: raises when a float() does.
from_dict(data) ==
    IF \E key \in FloatKeys : FloatRaises(data[key])
      THEN [raised |-> TRUE, value |-> None]
      ELSE [raised |-> FALSE,
            value  |-> Some([key \in KeySet |->
                               IF key \in FloatKeys THEN Float(data[key])
                                                    ELSE Str(data[key])])]

\* SetpointPersistence.load
load(file, defaults) == from_dict(merge_persisted(merged_defaults(defaults), file))

\* ControlLogic.__init__ calling load on the file it finds.
Load ==
    /\ returned.op # "load"
    /\ returned' = [op |-> "load", value |-> load(load_file, ConfigDefaults)]
    /\ UNCHANGED <<sensor_mgr, snapshot_vars, load_file,
                   relay_vars, control_vars, persist_vars, thread_vars>>

(***************************************************************************)
(* setpoint_persistence.py: a record written by _do_save and read by load  *)
(***************************************************************************)

\* The texts with an id from here on read as a number when they stand
\* unquoted in a YAML document ("2130", "22:00"); those below do not.
FirstNumericText == 100

\* What a field of a PersistedSetpoints can hold when _save_setpoints builds
\* it from the state: a float field holds what float() returned to the MQTT
\* handler, a number or nan; a schedule field holds what the JSON payload
\* gave, a text, a text of digits, a number or null.
FieldValue(key, choice) ==
    CASE choice = "number"       -> YamlValue("number", KeyNo(key))
      [] choice = "nan"          -> YamlValue("nan", 0)
      [] choice = "text"         -> YamlValue("text", KeyNo(key))
      [] choice = "numeric_text" -> YamlValue("text", FirstNumericText + KeyNo(key))
      [] choice = "null"         -> YamlValue("null", 0)

FieldChoices(key) ==
    IF key \in FloatKeys THEN {"number", "nan"}
                         ELSE {"text", "numeric_text", "number", "null"}

\* The PersistedSetpoints records.
Records ==
    {[key \in KeySet |-> FieldValue(key, c[key])] :
        c \in {d \in [KeySet -> {"number", "nan", "text", "numeric_text", "null"}] :
                 \A key \in KeySet : d[key] \in FieldChoices(key)}}

\* PersistedSetpoints.to_dict: asdict copies the fields as they are.
to_dict(r) == [key \in KeySet |-> r[key]]

\* The YAML resolver on the characters of an unquoted scalar: the characters
\* of a number, of .nan and of null give these values, and so do the
\* characters of a text that reads as one; any other text gives the text.
resolve_plain(chars) ==
    IF chars.kind = "text" /\ chars.v >= FirstNumericText
      THEN YamlValue("number", chars.v)
      ELSE chars

\* A scalar of a YAML document: its characters (named by the value whose
\* representation they are) and whether they stand in quotes.
Scalar(chars, quoted) == [chars |-> chars, quoted |-> quoted]

\* yaml.safe_dump of one value: a number, nan and null are written by their
\* representation; a text is written as it is, in quotes when the unquoted
\* characters would not resolve to a text.
represent(value) ==
    Scalar(value, value.kind = "text" /\ resolve_plain(value).kind # "text")

\* yaml.safe_dump(setpoints.to_dict(), f, default_flow_style=False)
safe_dump(d) == [key \in DOMAIN d |-> represent(d[key])]

\* yaml.safe_load of one scalar: a quoted scalar is the text of its
\* characters, an unquoted one what the resolver makes of them.
construct(scalar) ==
    IF scalar.quoted THEN YamlValue("text", scalar.chars.v)
                     ELSE resolve_plain(scalar.chars)

\* yaml.safe_load of a document that is a mapping of scalars.
safe_load(doc) == [key \in DOMAIN doc |-> construct(doc[key])]

\* Python's == on two field values: a number equals the same number and a
\* text the same text, nan equals nothing, a number equals no text.
Equal(a, b) == a.kind = b.kind /\ a.v = b.v /\ a.kind # "nan"

\* Defaults that differ from ConfigDefaults in every field.
OtherDefaults ==
    [glycol |-> [high_temp |-> YamlValue("number", 21),
                 delta_t   |-> YamlValue("number", 22)],
     dhw    |-> [high_temp |-> YamlValue("number", 23),
                 delta_t   |-> YamlValue("number", 24)],
     eco    |-> [high_temp |-> YamlValue("number", 25),
                 delta_t   |-> YamlValue("number", 26)],
     eco_schedule |-> [start_time |-> YamlValue("text", 27),
                       end_time   |-> YamlValue("text", 28)]]

\* The state file as load finds it after _do_save has moved a dumped record
\* over it (or, before any move, absent).
found_state_file(fs) ==
    IF IsNone(fs.state_file) THEN StateFile("absent", NoData)
    ELSE StateFile("mapping", safe_load(safe_dump(to_dict(Val(fs.state_file)))))

\* load called once the _do_save above has returned.
Reload ==
    /\ shutdown_call.pc = "done"
    /\ returned.op # "load"
    /\ \E defaults \in {ConfigDefaults, OtherDefaults} :
          /\ load_file' = found_state_file(files)
          /\ returned' = [op |-> "load", value |-> load(load_file', defaults)]
    /\ UNCHANGED <<sensor_mgr, snapshot_vars,
                   relay_vars, control_vars, persist_vars, thread_vars>>

(***************************************************************************)
(* control.py: Setpoints.low_temp as a function of its two fields          *)
(***************************************************************************)

\* The values a setpoint field takes here: below zero, zero and above, and
\* beyond the range of the temperatures.
SetpointRange == (0 - 2 * MaxTemp) .. (2 * MaxTemp)

\* A caller reads the low_temp property of a Setpoints(high_temp, delta_t).
GetLowTemp ==
    /\ \E high_temp \in SetpointRange, delta_t \in SetpointRange :
          returned' = [op |-> "low_temp", high_temp |-> high_temp,
                       delta_t |-> delta_t,
                       value |-> low_temp(Setpoints(high_temp, delta_t))]
    /\ UNCHANGED <<sensor_mgr, snapshot_vars, load_file,
                   relay_vars, control_vars, persist_vars, thread_vars>>

(***************************************************************************)
(* main.py: the loops that call ControlLogic.update periodically           *)
(***************************************************************************)

\* Number of update() calls the loop makes in the model.
MaxTicks == 3

\* The thread running control_loop (mode "gui") or run_headless (mode
\* "headless").  pc: "check" (at the while condition), "update" (about to
\* call control.update()), "notify" (inside update, the state lock held, at
\* _notify_state_change), "wait" (in shutdown_event.wait(interval)),
\* "stopped" (out of the loop).  signalled: signal_handler has run.  ticks,
\* raised: the update() calls that have ended, and those that raised.
MainLoop(mode) ==
    [mode |-> mode, pc |-> "check", shutdown_event |-> FALSE,
     signalled |-> FALSE, ticks |-> 0, raised |-> 0]

\* control_loop: "except Exception" around control.update() logs the error and
\* the loop goes on to its wait.
control_loop_except(loop) ==
    [loop EXCEPT !.pc = "wait", !.ticks = loop.ticks + 1,
                 !.raised = loop.raised + 1]

\* run_headless: the exception is no KeyboardInterrupt, so it leaves the while
\* loop; the finally clause sets shutdown_event and the exception goes on to
\* main().
run_headless_except(loop) ==
    [loop EXCEPT !.pc = "stopped", !.shutdown_event = TRUE,
                 !.ticks = loop.ticks + 1, !.raised = loop.raised + 1]

\* while not shutdown_event.is_set()
LoopCheck ==
    /\ main_loop.pc = "check"
    /\ main_loop.shutdown_event \/ main_loop.ticks < MaxTicks
    /\ main_loop' = [main_loop EXCEPT
                       !.pc = IF main_loop.shutdown_event THEN "stopped"
                                                          ELSE "update"]
    /\ UNCHANGED <<sensor_mgr, snapshot_vars, load_file, returned,
                   relay_vars, control_vars, persist_vars, eq_call, lock_vars, call_vars>>

\* control.update(): read_all(), the lock taken, and the body of the with
\* block up to _notify_state_change.
LoopUpdateLocked ==
    /\ main_loop.pc = "update"
    /\ state_lock = "free"
    /\ \E gr \in OptReadings, tank \in OptReadings :
         LET r == update(state, relay, ReadingsOf(gr, tank), now)
         IN  /\ state' = r.state
             /\ relay' = r.relays
    /\ state_lock' = "tick"
    /\ last_op' = "tick"
    /\ main_loop' = [main_loop EXCEPT !.pc = "notify"]
    /\ UNCHANGED <<cached_state, now, heap, cached_ref, snapshots, sensor_mgr,
                   load_file, returned, relay_vars, persist_vars, eq_call, lock_vars, call_vars>>

\* update(): _notify_state_change returns, the with block releases the lock,
\* update returns and the loop goes on to its wait.
LoopUpdateReturns ==
    /\ main_loop.pc = "notify"
    /\ cached_state' = _update_cached_state(state)
    /\ state_lock' = "free"
    /\ main_loop' = [main_loop EXCEPT !.pc = "wait",
                                      !.ticks = main_loop.ticks + 1]
    /\ UNCHANGED <<state, relay, now, last_op, heap, cached_ref, snapshots,
                   sensor_mgr, load_file, returned, relay_vars, persist_vars, eq_call, lock_vars, call_vars>>

\* update(): the listener registered with set_on_state_change raises in
\* _notify_state_change; the with block releases the lock on the way out and
\* the exception reaches the loop.
LoopUpdateRaises ==
    /\ main_loop.pc = "notify"
    /\ cached_state' = _update_cached_state(state)
    /\ state_lock' = "free"
    /\ main_loop' = IF main_loop.mode = "gui"
                      THEN control_loop_except(main_loop)
                      ELSE run_headless_except(main_loop)
    /\ UNCHANGED <<state, relay, now, last_op, heap, cached_ref, snapshots,
                   sensor_mgr, load_file, returned, relay_vars, persist_vars, eq_call, lock_vars, call_vars>>

\* shutdown_event.wait(interval) returns, on the timeout or on the event.
LoopWait ==
    /\ main_loop.pc = "wait"
    /\ main_loop' = [main_loop EXCEPT !.pc = "check"]
    /\ UNCHANGED <<sensor_mgr, snapshot_vars, load_file, returned,
                   relay_vars, control_vars, persist_vars, eq_call, lock_vars, call_vars>>

\* signal_handler: shutdown_event.set()
SignalHandler ==
    /\ ~main_loop.signalled
    /\ main_loop' = [main_loop EXCEPT !.shutdown_event = TRUE,
                                      !.signalled = TRUE]
    /\ UNCHANGED <<sensor_mgr, snapshot_vars, load_file, returned,
                   relay_vars, control_vars, persist_vars, eq_call, lock_vars, call_vars>>

(***************************************************************************)
(* control.py: set_equipment_mode, the relay call and then the state lock  *)
(***************************************************************************)

\* The equipment ids a caller passes: a relay of each subsystem and an id
\* that names none.
EquipmentIds == {"bypass_valve", "dhw_pump", "unknown_pump"}

\* A caller of set_equipment_mode(equipment_id, mode).  pc: "idle" (no call
\* under way), "notify" (self.relays.set_mode has returned, the caller is at
\* "with self._state_lock").  lock_seen: observer, the holder of the state
\* lock when the relay call ran.
EqCall(pc, equipment_id, mode, lock_seen) ==
    [pc |-> pc, equipment_id |-> equipment_id, mode |-> mode,
     lock_seen |-> lock_seen]

\* A RelayManager.set_mode that falls back on the DHW pump for an id it does
\* not know.
manager_set_mode_default_relay(rl, relay_id, mode) ==
    LET id == IF HasRelay(rl, relay_id) THEN relay_id ELSE "dhw_pump"
    IN  [rl EXCEPT ![id] = set_mode(rl[id], mode).relay]

\* RelayManager.set_mode: relay = self.relays.get(relay_id); if relay:
\* relay.set_mode(mode)
manager_set_mode(rl, relay_id, mode) ==
    IF HasRelay(rl, relay_id)
      THEN [rl EXCEPT ![relay_id] = set_mode(rl[relay_id], mode).relay]
      ELSE rl

\* set_equipment_mode, its first statement: self.relays.set_mode(...), run
\* with no state lock held, whoever holds it.
EqSetMode ==
    /\ eq_call.pc = "idle"
    /\ \E equipment_id \in EquipmentIds, mode \in EquipmentMode :
          /\ relay' = manager_set_mode(relay, equipment_id, mode)
          /\ eq_call' = EqCall("notify", equipment_id, mode, state_lock)
    /\ UNCHANGED <<state, cached_state, now, last_op, sensor_mgr,
                   snapshot_vars, load_file, returned, main_loop,
                   relay_vars, persist_vars, lock_vars, call_vars>>

\* set_equipment_mode, "with self._state_lock: self._notify_state_change()":
\* the lock is taken when free, the snapshot republished, the lock released.
EqNotify ==
    /\ eq_call.pc = "notify"
    /\ state_lock = "free"
    /\ cached_state' = _update_cached_state(state)
    /\ last_op' = "setter"
    /\ eq_call' = [eq_call EXCEPT !.pc = "idle"]
    /\ UNCHANGED <<state, relay, now, sensor_mgr, snapshot_vars, load_file,
                   returned, main_loop, relay_vars, persist_vars, lock_vars, call_vars>>

(***************************************************************************)
(* The locks of the program and the order in which each thread takes them. *)
(* A thread's code is reduced to its acquire and release operations, in    *)
(* program order; threading.Lock is not reentrant.                         *)
(***************************************************************************)

\* ControlLogic._state_lock, the _lock of two RelayControllers, of the
\* SensorManager, of a TemperatureSensor and of the SetpointPersistence.
LockIds == {"state_lock", "valve_lock", "dhw_pump_lock", "sensors_lock",
            "probe_lock", "persistence_lock"}

\* The tick thread, two setter callers, a set_equipment_mode caller, the
\* sampling thread, a debounce Timer thread and the caller of the shutdowns.
ThreadIds == {"tick", "setter_a", "setter_b", "equipment", "sampler",
              "timer", "shutdown"}

Acquire(lock) == [op |-> "acquire", lock |-> lock]
Release(lock) == [op |-> "release", lock |-> lock]

\* with lock: body
With(lock, body) == <<Acquire(lock)>> \o body \o <<Release(lock)>>

\* ControlLogic.update: read_all() under the sensors' lock; then, under the
\* state lock, the set_auto_state calls of _control_snowmelt and _control_dhw,
\* each under its relay's lock.
update_locks ==
    With("sensors_lock", <<>>)
      \o With("state_lock", With("valve_lock", <<>>)
                              \o With("dhw_pump_lock", <<>>))

\* ControlLogic.set_glycol_setpoints (and the other setters that save): under
\* the state lock, _save_setpoints calls SetpointPersistence.save, which takes
\* the persistence lock.
set_setpoints_locks == With("state_lock", With("persistence_lock", <<>>))

\* A set_equipment_mode that republishes while it still holds the relay's
\* lock.
set_equipment_mode_locks_nested ==
    With("dhw_pump_lock", With("state_lock", <<>>))

\* ControlLogic.set_equipment_mode: RelayController.set_mode under the relay's
\* lock, and after it the state lock.
set_equipment_mode_locks ==
    With("dhw_pump_lock", <<>>) \o With("state_lock", <<>>)

\* SensorManager._read_loop: read_temperature under the probe's lock, then the
\* publication under the sensors' lock.
read_loop_locks == With("probe_lock", <<>>) \o With("sensors_lock", <<>>)

\* SetpointPersistence._do_save: the block under the persistence lock; the
\* file is written after the release.
do_save_locks == With("persistence_lock", <<>>)

\* ControlLogic.shutdown (SetpointPersistence.shutdown: its locked block, then
\* _do_save) and RelayManager.shutdown (set_mode and set_auto_state on every
\* relay).
shutdown_locks ==
    With("persistence_lock", <<>>) \o do_save_locks
      \o With("valve_lock", <<>>) \o With("valve_lock", <<>>)
      \o With("dhw_pump_lock", <<>>) \o With("dhw_pump_lock", <<>>)

\* The lock operations of each thread.  All but the shutdown caller run their
\* code again and again.
Program(t) ==
    CASE t = "tick"      -> update_locks
      [] t = "setter_a"  -> set_setpoints_locks
      [] t = "setter_b"  -> set_setpoints_locks
      [] t = "equipment" -> set_equipment_mode_locks
      [] t = "sampler"   -> read_loop_locks
      [] t = "timer"     -> do_save_locks
      [] t = "shutdown"  -> shutdown_locks

Repeats(t) == t # "shutdown"

\* The locks a thread holds.
HeldBy(t) == {l \in LockIds : locks[l] = t}

\* The thread has an operation left to run.
Running(t) == threads[t] <= Len(Program(t))

\* The thread is at an acquire of a lock that is not free: it waits for the
\* holder (itself, if it holds the lock already).
WaitsFor(t) ==
    IF Running(t) /\ Program(t)[threads[t]].op = "acquire"
         /\ locks[Program(t)[threads[t]].lock] # "free"
      THEN {locks[Program(t)[threads[t]].lock]}
      ELSE {}

\* The next lock operation of thread t: an acquire takes a free lock, a
\* release frees it.
LockStep(t) ==
    /\ Running(t)
    /\ LET op == Program(t)[threads[t]]
           next == IF threads[t] = Len(Program(t)) /\ Repeats(t)
                     THEN 1 ELSE threads[t] + 1
       IN  /\ IF op.op = "acquire"
                THEN /\ locks[op.lock] = "free"
                     /\ locks' = [locks EXCEPT ![op.lock] = t]
                     /\ lock_order' = lock_order
                                        \cup {<<h, op.lock>> : h \in HeldBy(t)}
                ELSE /\ locks' = [locks EXCEPT ![op.lock] = "free"]
                     /\ lock_order' = lock_order
           /\ threads' = [threads EXCEPT ![t] = next]
    /\ UNCHANGED <<sensor_mgr, snapshot_vars, load_file, returned, main_loop,
                   eq_call, relay_vars, control_vars, persist_vars, call_vars>>

TickThread == LockStep("tick")
SetterThread == \E t \in {"setter_a", "setter_b"} : LockStep(t)
EquipmentThread == LockStep("equipment")
SamplerThread == LockStep("sampler")
TimerThread == LockStep("timer")
ShutdownThread == LockStep("shutdown")

(***************************************************************************)
(* main.py: the cleanup in main()'s finally clause, and                    *)
(* relays.py: RelayManager.shutdown.  control_loop's thread is a daemon    *)
(* that main() does not join: an update() it has begun goes on while the   *)
(* cleanup runs.                                                           *)
(***************************************************************************)

\* RelayManager.relays in the order of the configuration: the order in which
\* shutdown() goes through the relays.
RelayOrder == <<"glycol_pump", "primary_pump", "bypass_valve", "dhw_pump">>

\* The relays of the configuration that the manager holds, in that order.
ConfiguredOrder(rl) == SelectSeq(RelayOrder, LAMBDA id : HasRelay(rl, id))

\* The caller of RelayManager.shutdown().  pc: "unused" (main() has not
\* reached its finally clause), "set_mode" (about to call set_mode(OFF) on
\* relay number relay_no), "set_auto_state" (about to call
\* set_auto_state(False) on it), "done" (shutdown() has returned).
RmShutdown(pc, relay_no) == [pc |-> pc, relay_no |-> relay_no]

\* A shutdown that leaves each relay's mode as it is.
shutdown_set_mode_kept(rs) == rs

\* RelayManager.shutdown: relay.set_mode(EquipmentMode.OFF)
shutdown_set_mode(rs) == set_mode(rs, "off").relay

\* main(), the finally clause up to relay_manager.shutdown():
\* shutdown_event.set(), then sensor_manager.shutdown().  With --no-gui the
\* main thread gets here only after run_headless has returned.
MainCleanup ==
    /\ rm_shutdown.pc = "unused"
    /\ main_loop.mode = "headless" => main_loop.pc = "stopped"
    /\ main_loop' = [main_loop EXCEPT !.shutdown_event = TRUE]
    /\ sensor_mgr' = IF sensor_mgr._stop_event THEN sensor_mgr
                     ELSE [sensor_mgr EXCEPT
                             !._stop_event = TRUE,
                             !.stopped_at = Some([cycle |-> sensor_mgr.cycle,
                                                  pc |-> sensor_mgr.pc])]
    /\ rm_shutdown' = IF ConfiguredOrder(relay) = <<>>
                        THEN RmShutdown("done", 0)
                        ELSE RmShutdown("set_mode", 1)
    /\ UNCHANGED <<snapshot_vars, load_file, returned, relay_vars,
                   control_vars, persist_vars, eq_call, lock_vars,
                   tick_call, timer_read, setter_call>>

\* RelayManager.shutdown: relay.set_mode(EquipmentMode.OFF) on the next relay.
ManagerShutdownSetMode ==
    /\ rm_shutdown.pc = "set_mode"
    /\ LET id == ConfiguredOrder(relay)[rm_shutdown.relay_no]
       IN  relay' = [relay EXCEPT ![id] = shutdown_set_mode(relay[id])]
    /\ rm_shutdown' = [rm_shutdown EXCEPT !.pc = "set_auto_state"]
    /\ UNCHANGED <<state, cached_state, now, last_op, sensor_mgr,
                   snapshot_vars, load_file, returned, relay_vars,
                   persist_vars, main_loop, eq_call, lock_vars,
                   tick_call, timer_read, setter_call>>

\* RelayManager.shutdown: relay.set_auto_state(False) on the same relay; after
\* the last relay shutdown() returns.
ManagerShutdownSetAuto ==
    /\ rm_shutdown.pc = "set_auto_state"
    /\ LET order == ConfiguredOrder(relay)
           id == order[rm_shutdown.relay_no]
       IN  /\ relay' = RelaySetAuto(relay, id, FALSE)
           /\ rm_shutdown' = IF rm_shutdown.relay_no = Len(order)
                               THEN RmShutdown("done", rm_shutdown.relay_no)
                               ELSE RmShutdown("set_mode",
                                               rm_shutdown.relay_no + 1)
    /\ UNCHANGED <<state, cached_state, now, last_op, sensor_mgr,
                   snapshot_vars, load_file, returned, relay_vars,
                   persist_vars, main_loop, eq_call, lock_vars,
                   tick_call, timer_read, setter_call>>

\* The save() a setter makes while the store is open.
SaveBeforeShutdown == ~persistence._shutdown /\ n_saves = 0 /\ Save

\* A save() call made after SetpointPersistence.shutdown() has set _shutdown.
SaveAfterShutdown == persistence._shutdown /\ Save

\* A setter of ControlLogic called while the state lock is free: the whole
\* handler runs before any other handler takes the lock.
SetSnowmeltEnabledUnlocked == state_lock = "free" /\ SetSnowmeltEnabled
SetDhwEnabledUnlocked == state_lock = "free" /\ SetDhwEnabled
SetEcoEnabledUnlocked == state_lock = "free" /\ SetEcoEnabled
SetGlycolSetpointsUnlocked == state_lock = "free" /\ SetGlycolSetpoints
StartShutdownTimerUnlocked == state_lock = "free" /\ StartShutdownTimer

(***************************************************************************)
(* control.py: a tick taken one RelayController call at a time.  The state *)
(* lock covers self.state; each set_auto_state call takes and releases the *)
(* lock of its relay, so a reader of the relays sees the relays between    *)
(* any two of the calls.                                                   *)
(***************************************************************************)

\* The tick thread inside ControlLogic.update.  pc: "idle" (outside update),
\* "calls" (the state lock held, self.state evaluated; calls holds the
\* set_auto_state calls the tick has still to make, in the order of the code).
TickCall(pc, calls) == [pc |-> pc, calls |-> calls]

\* relay.set_auto_state(value) on the relay with this id
AutoCall(id, value) == [id |-> id, value |-> value]

\* The set_auto_state calls of _control_snowmelt, in the order of its
\* statements.
snowmelt_calls(st, rl) ==
    IF ~(HasRelay(rl, "glycol_pump") /\ HasRelay(rl, "primary_pump")
         /\ HasRelay(rl, "bypass_valve"))
      THEN <<>>
    ELSE IF ~st.snowmelt_enabled
      THEN <<AutoCall("glycol_pump", FALSE), AutoCall("primary_pump", FALSE),
             AutoCall("bypass_valve", FALSE)>>
    ELSE LET return_temp == st.glycol_return_temp
             setpoints == st.glycol_setpoints
         IN  <<AutoCall("glycol_pump", TRUE)>> \o
             (IF IsNone(return_temp)
                THEN <<AutoCall("bypass_valve", FALSE),
                       AutoCall("primary_pump", FALSE)>>
              ELSE IF Val(return_temp) >= setpoints.high_temp
                THEN <<AutoCall("bypass_valve", FALSE),
                       AutoCall("primary_pump", FALSE)>>
              ELSE IF Val(return_temp) <= low_temp(setpoints)
                THEN <<AutoCall("bypass_valve", TRUE),
                       AutoCall("primary_pump", TRUE)>>
              ELSE <<>>)

\* The set_auto_state call of _control_dhw.
dhw_calls(st, rl) ==
    IF ~HasRelay(rl, "dhw_pump") THEN <<>>
    ELSE IF ~st.dhw_enabled THEN <<AutoCall("dhw_pump", FALSE)>>
    ELSE LET tank_temp == st.dhw_tank_temp
             setpoints == dhw_active_setpoints(st)
         IN  IF IsNone(tank_temp) THEN <<AutoCall("dhw_pump", FALSE)>>
             ELSE IF Val(tank_temp) >= setpoints.high_temp
               THEN <<AutoCall("dhw_pump", FALSE)>>
             ELSE IF Val(tank_temp) <= low_temp(setpoints)
               THEN <<AutoCall("dhw_pump", TRUE)>>
             ELSE <<>>

\* ControlLogic.update up to the first set_auto_state call: read_all(), the
\* state lock taken, the temperatures, eco_active and the shutdown timer
\* evaluated.  The fields of self.state that the two control functions assign
\* are set here; no other thread reads them before the lock is released.  The
\* glycol return probe's entry varies, the DHW tank reads MaxTemp.
TickBegin ==
    /\ tick_call.pc = "idle"
    /\ state_lock = "free"
    /\ \E gr \in OptReadings :
         LET readings == ReadingsOf(gr, Some(SensorReading(MaxTemp)))
             s1 == _update_temperatures(state, readings)
             s2 == [s1 EXCEPT !.eco_active = _is_eco_time(s1, now)]
             s3 == _check_shutdown_timer(s2, now)
         IN  /\ state' = update(state, relay, readings, now).state
             /\ tick_call' = TickCall("calls", snowmelt_calls(s3, relay)
                                                 \o dhw_calls(s3, relay))
    /\ state_lock' = "tick"
    /\ last_op' = IF TimerExpires(state, now) THEN "tick_expired" ELSE "tick"
    /\ UNCHANGED <<cached_state, relay, now, heap, cached_ref, snapshots,
                   sensor_mgr, load_file, returned, relay_vars, persist_vars,
                   main_loop, eq_call, lock_vars, rm_shutdown, timer_read,
                   setter_call>>

\* The next set_auto_state call of the tick.
TickRelayCall ==
    /\ tick_call.pc = "calls"
    /\ tick_call.calls # <<>>
    /\ LET call == Head(tick_call.calls)
       IN  relay' = RelaySetAuto(relay, call.id, call.value)
    /\ tick_call' = [tick_call EXCEPT !.calls = Tail(tick_call.calls)]
    /\ UNCHANGED <<state, cached_state, now, last_op, sensor_mgr,
                   snapshot_vars, load_file, returned, relay_vars,
                   persist_vars, main_loop, eq_call, lock_vars, rm_shutdown,
                   timer_read, setter_call>>

\* The tick's _notify_state_change, and the release of the state lock.
TickEnd ==
    /\ tick_call.pc = "calls"
    /\ tick_call.calls = <<>>
    /\ cached_state' = _update_cached_state(state)
    /\ state_lock' = "free"
    /\ tick_call' = TickCall("idle", <<>>)
    /\ UNCHANGED <<state, relay, now, last_op, heap, cached_ref, snapshots,
                   sensor_mgr, load_file, returned, relay_vars, persist_vars,
                   main_loop, eq_call, lock_vars, rm_shutdown, timer_read,
                   setter_call>>

\* class RelayState, the three fields that vary.
RelayState(rs) ==
    [mode |-> rs.mode, is_energized |-> rs.is_energized,
     auto_state |-> rs.auto_state]

\* RelayManager.get_all_states, called by the GUI or the MQTT thread with no
\* tick call between its reads of the relays.
GetAllStates ==
    /\ returned' = [op |-> "get_all_states",
                    value |-> [id \in DOMAIN relay |-> RelayState(relay[id])],
                    tick |-> tick_call]
    /\ UNCHANGED <<sensor_mgr, snapshot_vars, load_file, relay_vars,
                   control_vars, persist_vars, thread_vars>>

(***************************************************************************)
(* control.py: get_shutdown_timer_remaining, statement by statement.  It   *)
(* reads self.state without the state lock, so a handler that holds the    *)
(* lock can run between its two statements.                                *)
(***************************************************************************)

\* A caller of get_shutdown_timer_remaining().  pc: "idle" (no call under
\* way), "subtract" (the condition of the if was false, the caller is about
\* to evaluate shutdown_timer_end_time - datetime.now()).  checked: observer,
\* the end time the condition saw.
TimerRead(pc, checked) == [pc |-> pc, checked |-> checked]

\* get_shutdown_timer_remaining: the condition of its if statement.
remaining_is_none(st) ==
    ~st.shutdown_timer_enabled \/ IsNone(st.shutdown_timer_end_time)

\* get_shutdown_timer_remaining: the subtraction and the return after it, on
\* the end time read now; None - datetime raises TypeError.
remaining_subtract(st, at) ==
    IF IsNone(st.shutdown_timer_end_time)
      THEN [raised |-> TRUE, value |-> None]
      ELSE [raised |-> FALSE,
            value |-> Some(Max(0, IntTrunc(
                         Instant(Val(st.shutdown_timer_end_time), 0) - at,
                         TicksPerSecond)))]

\* get_shutdown_timer_remaining: the if statement, and its return None.
TimerReadCheck ==
    /\ timer_read.pc = "idle"
    /\ IF remaining_is_none(state)
         THEN /\ returned' = [op |-> "remaining", raised |-> FALSE,
                              value |-> None]
              /\ UNCHANGED timer_read
         ELSE /\ timer_read' = TimerRead("subtract",
                                         state.shutdown_timer_end_time)
              /\ UNCHANGED returned
    /\ UNCHANGED <<sensor_mgr, snapshot_vars, load_file, relay_vars,
                   control_vars, persist_vars, main_loop, eq_call, lock_vars,
                   tick_call, rm_shutdown, setter_call>>

\* get_shutdown_timer_remaining: the two statements after the if.
TimerReadSubtract ==
    /\ timer_read.pc = "subtract"
    /\ \E frac \in 0..(TicksPerSecond - 1) :
         LET r == remaining_subtract(state, Instant(now, frac))
         IN  returned' = [op |-> "remaining", raised |-> r.raised,
                          value |-> r.value]
    /\ timer_read' = TimerRead("idle", None)
    /\ UNCHANGED <<sensor_mgr, snapshot_vars, load_file, relay_vars,
                   control_vars, persist_vars, main_loop, eq_call, lock_vars,
                   tick_call, rm_shutdown, setter_call>>

(***************************************************************************)
(* control.py: the setters that save, with a persistence store attached.   *)
(* A call is three steps: the state lock taken and self.state assigned;    *)
(* _save_setpoints; _notify_state_change and the release of the lock.      *)
(***************************************************************************)

\* The threads that call the setters: the GUI and the MQTT client.
SetterCallers == {"gui", "mqtt"}

\* pc, per caller: "idle" (outside a setter), "save" (the lock held, the field
\* assigned, at _save_setpoints), "notify" (at _notify_state_change).
\* passed: observer, the record most recently passed to save().
SetterCall(passed) ==
    [pc |-> [c \in SetterCallers |-> "idle"], passed |-> passed]

\* A _save_setpoints that passes the schedule of ControlState's defaults.
_save_setpoints_default_schedule(st) ==
    [glycol_high_temp |-> st.glycol_setpoints.high_temp,
     glycol_delta_t   |-> st.glycol_setpoints.delta_t,
     dhw_high_temp    |-> st.dhw_setpoints.high_temp,
     dhw_delta_t      |-> st.dhw_setpoints.delta_t,
     eco_high_temp    |-> st.eco_setpoints.high_temp,
     eco_delta_t      |-> st.eco_setpoints.delta_t,
     eco_start        |-> ControlStateInit.eco_start,
     eco_end          |-> ControlStateInit.eco_end]

\* ControlLogic._save_setpoints: the PersistedSetpoints it builds from
\* self.state and passes to SetpointPersistence.save.
_save_setpoints(st) ==
    [glycol_high_temp |-> st.glycol_setpoints.high_temp,
     glycol_delta_t   |-> st.glycol_setpoints.delta_t,
     dhw_high_temp    |-> st.dhw_setpoints.high_temp,
     dhw_delta_t      |-> st.dhw_setpoints.delta_t,
     eco_high_temp    |-> st.eco_setpoints.high_temp,
     eco_delta_t      |-> st.eco_setpoints.delta_t,
     eco_start        |-> st.eco_start,
     eco_end          |-> st.eco_end]

\* Setpoints passed to set_dhw_setpoints and set_eco_setpoints by the callers
\* of SetpointsLocked.
SavingInputs == {Setpoints(3, 2)}

\* What set_glycol_setpoints, set_dhw_setpoints, set_eco_setpoints and
\* set_eco_schedule leave in self.state before _save_setpoints.
SavingSetterResults(st) ==
    {[st EXCEPT !.glycol_setpoints = Setpoints(sp.high_temp, sp.delta_t)]
        : sp \in SetpointInputs}
    \cup {[st EXCEPT !.dhw_setpoints = Setpoints(sp.high_temp, sp.delta_t)]
            : sp \in SavingInputs}
    \cup {[st EXCEPT !.eco_setpoints = Setpoints(sp.high_temp, sp.delta_t)]
            : sp \in SavingInputs}
    \cup {[st EXCEPT !.eco_start = se, !.eco_end = se] : se \in EcoTimeInputs}

\* A saving setter: "with self._state_lock" and the assignment.
SetpointsLocked ==
    /\ state_lock = "free"
    /\ n_saves < MaxSaves
    /\ \E c \in SetterCallers, st \in SavingSetterResults(state) :
         /\ setter_call.pc[c] = "idle"
         /\ state' = st
         /\ setter_call' = [setter_call EXCEPT !.pc[c] = "save"]
    /\ state_lock' = "setter"
    /\ last_op' = "setter"
    /\ UNCHANGED <<cached_state, relay, now, heap, cached_ref, snapshots,
                   sensor_mgr, load_file, returned, relay_vars, persist_vars,
                   main_loop, eq_call, lock_vars, tick_call, rm_shutdown,
                   timer_read>>

\* A saving setter: _save_setpoints, which calls SetpointPersistence.save
\* with the record built from self.state.
SetpointsSave ==
    /\ \E c \in SetterCallers :
         /\ setter_call.pc[c] = "save"
         /\ setter_call' = [setter_call EXCEPT
                              !.pc[c] = "notify",
                              !.passed = Some(_save_setpoints(state))]
    /\ persistence' = save(persistence, _save_setpoints(state), n_saves + 1)
    /\ last_save' = IF persistence._shutdown THEN last_save
                    ELSE Some(_save_setpoints(state))
    /\ n_saves' = n_saves + 1
    /\ early_fire' = (early_fire \/
                        (~persistence._shutdown /\
                           \E i \in TimerIds : Fired(persistence.timers[i])))
    /\ UNCHANGED <<files, shutdown_call, sensor_mgr, snapshot_vars, load_file,
                   returned, relay_vars, control_vars, main_loop, eq_call,
                   lock_vars, tick_call, rm_shutdown, timer_read>>

\* A saving setter: _notify_state_change, and the release of the state lock.
SetpointsNotify ==
    /\ \E c \in SetterCallers :
         /\ setter_call.pc[c] = "notify"
         /\ setter_call' = [setter_call EXCEPT !.pc[c] = "idle"]
    /\ cached_state' = _update_cached_state(state)
    /\ state_lock' = "free"
    /\ UNCHANGED <<state, relay, now, last_op, heap, cached_ref, snapshots,
                   sensor_mgr, load_file, returned, relay_vars, persist_vars,
                   main_loop, eq_call, lock_vars, tick_call, rm_shutdown,
                   timer_read>>

\* No call of set_equipment_mode is under way; every lock is free and every
\* thread at the start of its code.
CallersInit ==
    /\ eq_call = EqCall("idle", "none", "auto", "free")
    /\ locks = [l \in LockIds |-> "free"]
    /\ threads = [t \in ThreadIds |-> 1]
    /\ lock_order = {}
    /\ tick_call = TickCall("idle", <<>>)
    /\ rm_shutdown = RmShutdown("unused", 0)
    /\ timer_read = TimerRead("idle", None)
    /\ setter_call = SetterCall(None)

\* main() has entered control_loop's thread; no tick has run.
ThreadInit ==
    /\ main_loop = MainLoop("gui")
    /\ CallersInit

\* The state outside the relay, control and persistence layers at start-up,
\* but for the state file load finds.
AuxInit ==
    /\ sensor_mgr = SensorManagerInit
    /\ state_lock = "free"
    /\ heap = <<ControlStateInit>>
    /\ cached_ref = 1
    /\ snapshots = {}
    /\ returned = [op |-> "none", value |-> None]

Init ==
    /\ RelayCallsInit
    /\ ControlInit
    /\ PersistInit
    /\ AuxInit
    /\ load_file = StateFile("absent", NoData)
    /\ ThreadInit

\* Start-up over any state file.
LoadInit ==
    /\ RelayCallsInit
    /\ ControlInit
    /\ PersistInit
    /\ AuxInit
    /\ load_file \in LoadFiles
    /\ ThreadInit

RelayNext == RcSetMode \/ RcSetAutoState \/ RcSetOnChangeCallback

\* The relay layer alone, driven through RelayController's API.
SpecRelay == Init /\ [][RelayNext]_vars

SnowmeltNext ==
    \/ TickSnowmelt
    \/ SetSnowmeltEnabled
    \/ SetGlycolSetpoints
    \/ StartShutdownTimer
    \/ CancelShutdownTimer
    \/ AdvanceClock

\* The snowmelt subsystem: ticks, its setters, the shutdown timer, the clock.
SpecSnowmelt == Init /\ [][SnowmeltNext]_vars

DhwNext ==
    \/ TickDhw
    \/ SetDhwEnabled
    \/ SetEcoEnabled
    \/ SetDhwSetpoints
    \/ SetEcoSetpoints
    \/ SetEcoSchedule
    \/ AdvanceClock

\* The DHW subsystem: ticks, its setters, the eco schedule, the clock.
SpecDhw == Init /\ [][DhwNext]_vars

ModesNext ==
    \/ TickAny
    \/ SetEquipmentMode
    \/ SetSnowmeltEnabled
    \/ SetDhwEnabled

\* Both subsystems under every relay mode override.
SpecModes == Init /\ [][ModesNext]_vars

PersistNext ==
    \/ Save
    \/ TimerFire
    \/ TimerDoSaveTake
    \/ TimerDoSaveOpen
    \/ TimerDoSaveWrite
    \/ TimerDoSaveMove
    \/ Shutdown
    \/ ShutdownDoSaveTake
    \/ ShutdownDoSaveOpen
    \/ ShutdownDoSaveWrite
    \/ ShutdownDoSaveMove

\* The setpoint store: save() callers, the timer threads and one shutdown().
SpecPersist == Init /\ [][PersistNext]_vars

PersistFaultsNext == PersistNext \/ TimerDoSaveFail \/ ShutdownDoSaveFail

\* The setpoint store on a disk that can fail any open, dump or move.
SpecPersistFaults == Init /\ [][PersistFaultsNext]_vars

SensorNext ==
    \/ SensorStartCycle
    \/ SensorReadProbe
    \/ SensorPublish
    \/ ReadAll

\* The sampling thread and the callers of read_all().
SpecSensors == Init /\ [][SensorNext]_vars

SnapshotNext ==
    \/ SetterLocked
    \/ StartShutdownTimerRejected
    \/ TickLocked
    \/ NotifyRelease
    \/ GetState

\* The handlers split at _notify_state_change, and the readers of get_state().
SpecSnapshot == Init /\ [][SnapshotNext]_vars

TimerNext ==
    \/ StartShutdownTimer
    \/ CancelShutdownTimer
    \/ TickSnowmelt
    \/ AdvanceClock
    \/ GetShutdownTimerRemaining

SensorLoopNext ==
    \/ SensorStartCycle
    \/ SensorReadDevice
    \/ SensorPublish

\* The sampling thread over probes that can fail to read.
SpecSensorLoop == Init /\ [][SensorLoopNext]_vars

HxNext ==
    \/ TickHx
    \/ SetSnowmeltEnabled
    \/ SetDhwEnabled
    \/ SetEcoEnabled
    \/ AdvanceClock

\* Ticks over the readings of the heat exchanger probes.
SpecHx == Init /\ [][HxNext]_vars

MissingRelayInit ==
    /\ RelayCallsInit
    /\ ControlInitMissingRelay
    /\ PersistInit
    /\ AuxInit
    /\ load_file = StateFile("absent", NoData)
    /\ ThreadInit

MissingRelayNext ==
    \/ TickAny
    \/ SetEquipmentMode
    \/ SetSnowmeltEnabled
    \/ SetDhwEnabled

\* Both subsystems with one relay left out of the configuration.
SpecMissingRelay == MissingRelayInit /\ [][MissingRelayNext]_vars

EquipmentNext ==
    \/ LoopCheck
    \/ LoopUpdateLocked
    \/ LoopUpdateReturns
    \/ LoopWait
    \/ EqSetMode
    \/ EqNotify

\* The tick thread and a caller of set_equipment_mode.
SpecEquipment == Init /\ [][EquipmentNext]_vars

\* The steps of the sampling thread itself.
SensorThreadStep ==
    \/ SensorStartCycle
    \/ SensorReadDevice
    \/ SensorPublish
    \/ SensorExit

SensorStopNext ==
    \/ SensorThreadStep
    \/ SensorCycleRaises
    \/ SensorShutdown

\* The sampling thread, exceptions in its cycles, and shutdown().  The thread
\* is scheduled as long as it has a step to take: a probe read returns and
\* the wait of 2 seconds ends.
SpecSensorStop ==
    Init /\ [][SensorStopNext]_vars /\ WF_vars(SensorThreadStep)

LocksNext ==
    \/ TickThread
    \/ SetterThread
    \/ EquipmentThread
    \/ SamplerThread
    \/ TimerThread
    \/ ShutdownThread

\* Every thread of the program over the locks.
SpecLocks == Init /\ [][LocksNext]_vars

\* low_temp read on every pair of fields.
SpecSetpoints == Init /\ [][GetLowTemp]_vars

\* main() with the GUI (control_loop in its thread) or with --no-gui
\* (run_headless).
MainLoopInit ==
    /\ RelayCallsInit
    /\ ControlInit
    /\ PersistInit
    /\ AuxInit
    /\ load_file = StateFile("absent", NoData)
    /\ main_loop \in {MainLoop("gui"), MainLoop("headless")}
    /\ CallersInit

MainLoopNext ==
    \/ LoopCheck
    \/ LoopUpdateLocked
    \/ LoopUpdateReturns
    \/ LoopUpdateRaises
    \/ LoopWait
    \/ SignalHandler

\* The periodic tick under either loop of main.py.
SpecMainLoop == MainLoopInit /\ [][MainLoopNext]_vars

\* A record is pending and a thread is about to run _do_save.
RoundTripInit ==
    /\ RelayCallsInit
    /\ ControlInit
    /\ AuxInit
    /\ load_file = StateFile("absent", NoData)
    /\ ThreadInit
    /\ \E r \in Records :
          /\ persistence = [PersistenceInit EXCEPT !._pending_save = Some(r)]
          /\ last_save = Some(r)
    /\ files = [state_file |-> None, tmp_file |-> None, n_writes |-> 0,
                disk_failures |-> 0]
    /\ shutdown_call = Thread("do_save", None)
    /\ n_saves = 1
    /\ early_fire = FALSE

RoundTripNext ==
    \/ ShutdownDoSaveTake
    \/ ShutdownDoSaveOpen
    \/ ShutdownDoSaveWrite
    \/ ShutdownDoSaveMove
    \/ Reload

\* One record written by _do_save and then loaded.
SpecRoundTrip == RoundTripInit /\ [][RoundTripNext]_vars

CouplingNext ==
    \/ LoopCheck
    \/ LoopUpdateLocked
    \/ LoopUpdateReturns
    \/ LoopWait
    \/ SetSnowmeltEnabledUnlocked
    \/ SetDhwEnabledUnlocked
    \/ MainCleanup
    \/ ManagerShutdownSetMode
    \/ ManagerShutdownSetAuto

\* control_loop's thread, setters called from other threads, and main()'s
\* cleanup with RelayManager.shutdown.
SpecCoupling == Init /\ [][CouplingNext]_vars

TickCallsNext ==
    \/ TickBegin
    \/ TickRelayCall
    \/ TickEnd
    \/ SetSnowmeltEnabledUnlocked
    \/ GetAllStates

\* The tick one relay call at a time, set_snowmelt_enabled, and a reader of
\* the relays.
SpecTickCalls == Init /\ [][TickCallsNext]_vars

FrameNext ==
    \/ TickBegin
    \/ TickRelayCall
    \/ TickEnd
    \/ SetSnowmeltEnabledUnlocked
    \/ SetEcoEnabledUnlocked
    \/ SetGlycolSetpointsUnlocked
    \/ StartShutdownTimerUnlocked
    \/ AdvanceClock

\* The tick, holding the state lock from its evaluation to its return, and
\* setters that run whenever the lock is free.
SpecFrame == Init /\ [][FrameNext]_vars

SettersNext ==
    \/ TickSnowmelt
    \/ SetSnowmeltEnabled
    \/ SetDhwEnabled
    \/ SetEcoEnabled
    \/ SetGlycolSetpoints
    \/ SetEcoSchedule
    \/ StartShutdownTimer
    \/ CancelShutdownTimer

\* The setters of ControlLogic between ticks (of the three set_*_setpoints,
\* which differ in the field they assign, set_glycol_setpoints).
SpecSetters == Init /\ [][SettersNext]_vars

\* A tick that runs while no setter holds the state lock.
TickSnowmeltUnlocked == state_lock = "free" /\ TickSnowmelt

SavingNext ==
    \/ SetpointsLocked
    \/ SetpointsSave
    \/ SetpointsNotify
    \/ SetSnowmeltEnabledUnlocked
    \/ TickSnowmeltUnlocked
    \/ Shutdown

\* A ControlLogic with a persistence store: two callers of the saving
\* setters, a handler that does not save, the tick, and the store's
\* shutdown().
SpecSaving == Init /\ [][SavingNext]_vars

TimerRaceNext ==
    \/ StartShutdownTimer
    \/ CancelShutdownTimer
    \/ TickSnowmelt
    \/ AdvanceClock
    \/ TimerReadCheck
    \/ TimerReadSubtract

\* get_shutdown_timer_remaining() as its two statements, against the handlers
\* that arm, cancel and expire the timer.
SpecTimerRace == Init /\ [][TimerRaceNext]_vars

FirstBatchNext ==
    \/ SensorStartCycle
    \/ SensorReadProbe
    \/ SensorPublish
    \/ TickReadAll
    \/ SetSnowmeltEnabled
    \/ SetDhwEnabled

\* The sampling thread from its start, the ticks that read its published
\* batch, and the enable setters.
SpecFirstBatch == Init /\ [][FirstBatchNext]_vars

InvertedNext ==
    \/ TickAny
    \/ SetSnowmeltEnabled
    \/ SetDhwEnabled
    \/ SetEcoEnabled
    \/ SetGlycolSetpointsInverted
    \/ SetDhwSetpointsInverted

\* Both subsystems under setpoints whose delta_t can be zero or negative.
SpecInverted == Init /\ [][InvertedNext]_vars

ShutdownNext ==
    \/ TickSnowmeltUnlocked
    \/ SetSnowmeltEnabledUnlocked
    \/ MainCleanup
    \/ ManagerShutdownSetMode
    \/ ManagerShutdownSetAuto
    \/ SaveBeforeShutdown
    \/ SaveAfterShutdown
    \/ TimerFire
    \/ TimerDoSaveTake
    \/ TimerDoSaveOpen
    \/ TimerDoSaveWrite
    \/ TimerDoSaveMove
    \/ Shutdown
    \/ ShutdownDoSaveTake
    \/ ShutdownDoSaveOpen
    \/ ShutdownDoSaveWrite
    \/ ShutdownDoSaveMove

\* The two shutdowns: RelayManager.shutdown() under the ticks of the daemon
\* control thread, with no set_mode call but its own, and
\* SetpointPersistence.shutdown() under save() calls.
SpecShutdown == Init /\ [][ShutdownNext]_vars

\* The shutdown timer: armed, cancelled, expired by a tick, and read.
SpecTimer == Init /\ [][TimerNext]_vars

\* load applied to every state file.
SpecLoad == LoadInit /\ [][Load]_vars

(***************************************************************************)
(* Properties                                                              *)
(***************************************************************************)

Energized(id) == relay[id].is_energized
AutoDesired(id) == relay[id].auto_state

\* C1: whenever no call on the relay is in progress, is_energized is true if
\* the mode is ON, false if the mode is OFF, and auto_state if it is AUTO.
C1_ModeResolution ==
    /\ rc.mode = "on"   => rc.is_energized = TRUE
    /\ rc.mode = "off"  => rc.is_energized = FALSE
    /\ rc.mode = "auto" => rc.is_energized = rc.auto_state

\* A set_auto_state(True) call followed by set_mode(ON ... OFF): the relay is
\* OFF by mode although the control loop wants it on.
C1_Witness ==
    /\ Len(rc_calls) >= 2
    /\ rc_calls[Len(rc_calls) - 1].op = "set_auto_state"
    /\ rc_calls[Len(rc_calls)].op = "set_mode"
    /\ rc.mode = "off" /\ rc.auto_state /\ ~rc.is_energized

\* The energized value a call must resolve to, from the mode in effect and the
\* auto state it passes.
C7_Resolved(mode, auto) ==
    CASE mode = "on"  -> TRUE
      [] mode = "off" -> FALSE
      [] OTHER        -> auto

\* C7: a set_auto_state call writes the hardware, and notifies the registered
\* listener, exactly when the resolved energized value differs from the
\* applied one; so set_auto_state(True) twice in AUTO from auto_state False is
\* one write and one notification.
C7_Debounce ==
    /\ \A i \in 1..Len(rc_calls) :
         LET c == rc_calls[i]
             differs == C7_Resolved(c.before.mode, c.after.auto_state)
                          # c.before.is_energized
         IN  c.op = "set_auto_state" =>
               /\ c.writes = (IF differs THEN 1 ELSE 0)
               /\ c.notifies = (IF differs /\ c.before.callback THEN 1 ELSE 0)
    /\ \A i \in 1..(Len(rc_calls) - 1) :
         LET c1 == rc_calls[i]
             c2 == rc_calls[i + 1]
         IN  (/\ c1.op = "set_auto_state" /\ c2.op = "set_auto_state"
              /\ c1.before.mode = "auto" /\ ~c1.before.auto_state
              /\ c1.after.auto_state /\ c2.after.auto_state)
             => /\ c1.writes + c2.writes = 1
                /\ c1.before.callback => c1.notifies + c2.notifies = 1

\* set_auto_state(True) twice in AUTO with a listener registered: the first
\* call wrote and notified, the second did neither.
C7_Witness ==
    /\ Len(rc_calls) >= 2
    /\ LET c1 == rc_calls[Len(rc_calls) - 1]
           c2 == rc_calls[Len(rc_calls)]
       IN  /\ c1.op = "set_auto_state" /\ c2.op = "set_auto_state"
           /\ c1.before.mode = "auto" /\ ~c1.before.auto_state
           /\ c1.before.callback
           /\ c1.after.auto_state /\ c2.after.auto_state
           /\ c1.writes = 1 /\ c1.notifies = 1
           /\ c2.writes = 0 /\ c2.notifies = 0

\* C2: a tick that finds snowmelt enabled and no valid glycol return reading
\* ends in ERROR with the valve and primary pump auto state off and the glycol
\* pump auto state on.
C2_SensorErrorFailSafe ==
    (/\ AfterTick(last_op)
     /\ state.snowmelt_enabled
     /\ IsNone(state.glycol_return_temp))
    => /\ state.snowmelt_state = "error"
       /\ ~AutoDesired("bypass_valve")
       /\ ~AutoDesired("primary_pump")
       /\ AutoDesired("glycol_pump")

C2_Witness ==
    /\ AfterTick(last_op)
    /\ state.snowmelt_enabled
    /\ IsNone(state.glycol_return_temp)
    /\ state.snowmelt_state = "error"
    /\ AutoDesired("glycol_pump")

\* The three cases of C3 on a step that is a tick with snowmelt enabled and a
\* valid reading; below_high says whether the HEATING case also asks for
\* return_temp < high_temp.
C3_Cases(below_high) ==
    (/\ AfterTick(last_op')
     /\ state'.snowmelt_enabled
     /\ ~IsNone(state'.glycol_return_temp))
    => LET t    == Val(state'.glycol_return_temp)
           high == state'.glycol_setpoints.high_temp
           low  == state'.glycol_setpoints.high_temp
                     - state'.glycol_setpoints.delta_t
       IN  /\ t >= high =>
                /\ state'.snowmelt_state = "bypass"
                /\ ~relay'["bypass_valve"].auto_state
                /\ ~relay'["primary_pump"].auto_state
           /\ (t <= low /\ (below_high => t < high)) =>
                /\ state'.snowmelt_state = "heating"
                /\ relay'["bypass_valve"].auto_state
                /\ relay'["primary_pump"].auto_state
           /\ (low < t /\ t < high) =>
                /\ state'.snowmelt_state = state.snowmelt_state
                /\ relay'["bypass_valve"].auto_state
                     = relay["bypass_valve"].auto_state
                /\ relay'["primary_pump"].auto_state
                     = relay["primary_pump"].auto_state

\* C3 as stated: return_temp >= high_temp gives BYPASS with valve and pump
\* off, return_temp <= low_temp gives HEATING with both on, and in between
\* the state and both auto states are what they were before the tick.
C3_Original == [][C3_Cases(FALSE)]_vars

\* C3, amended: HEATING is the outcome when return_temp <= low_temp and
\* return_temp < high_temp; with delta_t <= 0 a reading at or above high_temp
\* is BYPASS even though it is also at or below low_temp.
C3_Hysteresis == [][C3_Cases(TRUE)]_vars

\* A tick held HEATING inside the deadband.
C3_Witness ==
    /\ AfterTick(last_op)
    /\ state.snowmelt_enabled
    /\ ~IsNone(state.glycol_return_temp)
    /\ low_temp(state.glycol_setpoints) < Val(state.glycol_return_temp)
    /\ Val(state.glycol_return_temp) < state.glycol_setpoints.high_temp
    /\ state.snowmelt_state = "heating"
    /\ AutoDesired("primary_pump") /\ AutoDesired("bypass_valve")

\* C4: a tick that finds snowmelt disabled ends in IDLE with the glycol pump,
\* primary pump and bypass valve auto state off.
C4_DisabledIdle ==
    (AfterTick(last_op) /\ ~state.snowmelt_enabled)
    => /\ state.snowmelt_state = "idle"
       /\ ~AutoDesired("glycol_pump")
       /\ ~AutoDesired("primary_pump")
       /\ ~AutoDesired("bypass_valve")

\* A tick that disabled snowmelt itself (the timer expired) on a reading that
\* would otherwise call for heat.
C4_Witness ==
    /\ last_op = "tick_expired"
    /\ ~state.snowmelt_enabled
    /\ state.glycol_return_temp = Some(1)
    /\ state.snowmelt_state = "idle"
    /\ ~AutoDesired("glycol_pump")

\* The sensor-failure cases of C5 after a tick; on_wins says whether a relay
\* whose mode is ON is expected to stay energized.
C5_Cases(on_wins) ==
    LET Expected(id) == on_wins /\ relay[id].mode = "on"
    IN  AfterTick(last_op) =>
          /\ (state.snowmelt_enabled /\ IsNone(state.glycol_return_temp)) =>
               \A id \in {"primary_pump", "bypass_valve"} :
                   Energized(id) = Expected(id)
          /\ (state.dhw_enabled /\ IsNone(state.dhw_tank_temp)) =>
               Energized("dhw_pump") = Expected("dhw_pump")

\* C5 as stated: after a tick with the subsystem enabled and its sensor
\* failed, the heat outputs are de-energized in every mode.
C5_Original == C5_Cases(FALSE)

\* C5, amended: the heat outputs are de-energized when their mode is AUTO or
\* OFF; a relay whose mode is ON stays energized.
C5_FailSafeUnlessOn == C5_Cases(TRUE)

\* Both sensors failed, one output in each mode.
C5_Witness ==
    /\ AfterTick(last_op)
    /\ state.snowmelt_enabled /\ IsNone(state.glycol_return_temp)
    /\ state.dhw_enabled /\ IsNone(state.dhw_tank_temp)
    /\ relay["primary_pump"].mode = "on" /\ Energized("primary_pump")
    /\ relay["bypass_valve"].mode = "auto" /\ ~Energized("bypass_valve")
    /\ relay["dhw_pump"].mode = "off" /\ ~Energized("dhw_pump")

\* The cases of C6 on a step that is a tick; below_high says whether the
\* HEATING case also asks for tank < high.
C6_Cases(below_high) ==
    AfterTick(last_op') =>
      /\ ~state'.dhw_enabled =>
           state'.dhw_state = "idle" /\ ~relay'["dhw_pump"].auto_state
      /\ (state'.dhw_enabled /\ IsNone(state'.dhw_tank_temp)) =>
           state'.dhw_state = "error" /\ ~relay'["dhw_pump"].auto_state
      /\ (state'.dhw_enabled /\ ~IsNone(state'.dhw_tank_temp)) =>
           LET sp   == IF state'.eco_active THEN state'.eco_setpoints
                                            ELSE state'.dhw_setpoints
               t    == Val(state'.dhw_tank_temp)
               high == sp.high_temp
               low  == sp.high_temp - sp.delta_t
           IN  /\ t >= high =>
                    state'.dhw_state = "idle" /\ ~relay'["dhw_pump"].auto_state
               /\ (t <= low /\ (below_high => t < high)) =>
                    state'.dhw_state = "heating"
                    /\ relay'["dhw_pump"].auto_state
               /\ (low < t /\ t < high) =>
                    /\ state'.dhw_state = state.dhw_state
                    /\ relay'["dhw_pump"].auto_state
                         = relay["dhw_pump"].auto_state

\* C6 as stated: tank >= high gives IDLE and pump off, tank <= low gives
\* HEATING and pump on, against the eco setpoints while eco_active.
C6_Original == [][C6_Cases(FALSE)]_vars

\* C6, amended: HEATING is the outcome when tank <= low and tank < high.
C6_DhwHysteresis == [][C6_Cases(TRUE)]_vars

\* Eco active: a tick held HEATING inside the eco deadband at a temperature
\* the normal setpoints would have ended the heating at.
C6_Witness ==
    /\ AfterTick(last_op)
    /\ state.dhw_enabled /\ state.eco_active
    /\ state.eco_setpoints = Setpoints(3, 2)
    /\ state.dhw_setpoints = Setpoints(2, 1)
    /\ state.dhw_tank_temp = Some(2)
    /\ state.dhw_state = "heating"
    /\ AutoDesired("dhw_pump")

\* C8: a tick that finds the timer armed and its end time reached disables
\* snowmelt, clears the timer and ends in IDLE with the three snowmelt relays'
\* auto state off; a tick before the end time leaves snowmelt_enabled and
\* the timer as they were.
C8_ShutdownTimer ==
    [][AfterTick(last_op') =>
         /\ (/\ state.shutdown_timer_enabled
             /\ ~IsNone(state.shutdown_timer_end_time)
             /\ now >= Val(state.shutdown_timer_end_time))
            => /\ state'.snowmelt_enabled = FALSE
               /\ state'.shutdown_timer_enabled = FALSE
               /\ state'.shutdown_timer_end_time = None
               /\ state'.shutdown_timer_duration_minutes = 0
               /\ state'.snowmelt_state = "idle"
               /\ ~relay'["glycol_pump"].auto_state
               /\ ~relay'["primary_pump"].auto_state
               /\ ~relay'["bypass_valve"].auto_state
         /\ (/\ state.shutdown_timer_enabled
             /\ ~IsNone(state.shutdown_timer_end_time)
             /\ now < Val(state.shutdown_timer_end_time))
            => /\ state'.snowmelt_enabled = state.snowmelt_enabled
               /\ state'.shutdown_timer_enabled
               /\ state'.shutdown_timer_end_time
                    = state.shutdown_timer_end_time
               /\ state'.shutdown_timer_duration_minutes
                    = state.shutdown_timer_duration_minutes
      ]_vars

\* A tick after the end time of an armed timer: it logged the expiry and
\* left snowmelt disabled and idle.
C8_Witness ==
    /\ last_op = "tick_expired"
    /\ now >= 1
    /\ ~state.snowmelt_enabled
    /\ ~state.shutdown_timer_enabled
    /\ IsNone(state.shutdown_timer_end_time)
    /\ state.snowmelt_state = "idle"


\* No thread is waiting to run _do_save or inside it.
Quiescent ==
    /\ \A i \in TimerIds :
          persistence.timers[i].pc \in {"unused", "cancelled", "done"}
    /\ shutdown_call.pc \in {"unused", "done"}

\* C9: save() calls that are all made before any debounce timer fires, with
\* no shutdown, lead to exactly one write of the state file: there is never a
\* second one, there is one once the timer of the last call has run, and it
\* holds the value passed to the last save().
C9_BurstOneWrite ==
    (n_saves >= 1 /\ ~early_fire /\ ~persistence._shutdown) =>
        /\ files.n_writes <= 1
        /\ files.n_writes = 1 => files.state_file = last_save
        /\ Quiescent => files.n_writes = 1

\* Three save() calls in a burst, two timers cancelled, one write.
C9_Witness ==
    /\ Quiescent
    /\ n_saves = MaxSaves
    /\ ~early_fire
    /\ ~persistence._shutdown
    /\ \E i \in TimerIds : persistence.timers[i].pc = "cancelled"
    /\ files.n_writes = 1
    /\ files.state_file = last_save

\* C10: once shutdown() has returned and every thread that was inside _do_save
\* has left it, the state file holds the value of the last save() accepted
\* before the shutdown.
C10_ShutdownKeepsLast ==
    (shutdown_call.pc = "done" /\ Quiescent /\ ~IsNone(last_save)) =>
        files.state_file = last_save


\* C11: when the open, the dump or the move in a timer thread's _do_save
\* fails, a value is still pending afterwards, for the next debounce trigger
\* or shutdown() to write.
C11_FailedWriteKeepsPending ==
    [][(shutdown_call.pc = "unused"
          /\ files'.disk_failures > files.disk_failures)
         => ~IsNone(persistence'._pending_save)]_vars

\* C12: the state file is absent or holds one complete record that was
\* passed to save().
C12_NeverPartial ==
    IsNone(files.state_file) \/ Val(files.state_file) \in SaveValues


\* C17: the eco_active a tick computes is false when eco is disabled;
\* otherwise, for start > end it is (now >= start or now < end) and for
\* start <= end it is (start <= now < end): a window with start = end is
\* never active, now = start is active, now = end is inactive.
C17_EcoWindow ==
    AfterTick(last_op) =>
        LET start  == Strptime(state.eco_start)
            end    == Strptime(state.eco_end)
            tod    == TimeOfDay(now)
            active == state.eco_active
        IN  /\ ~state.eco_enabled => ~active
            /\ (state.eco_enabled /\ start > end)
                  => (active <=> (tod >= start \/ tod < end))
            /\ (state.eco_enabled /\ start <= end)
                  => (active <=> (start <= tod /\ tod < end))
            /\ start = end => ~active
            /\ (state.eco_enabled /\ tod = start /\ start # end) => active
            /\ tod = end => ~active

\* A tick at the very start of an overnight window.
C17_Witness ==
    /\ AfterTick(last_op)
    /\ state.eco_enabled
    /\ Strptime(state.eco_start) > Strptime(state.eco_end)
    /\ TimeOfDay(now) = Strptime(state.eco_start)
    /\ state.eco_active

\* C19: start_shutdown_timer with hours * 60 + minutes <= 0 changes neither
\* the three timer fields nor snowmelt_enabled nor the published snapshot; an
\* armed timer stays armed with its end time.
C19_TimerNoop ==
    [][last_op' = "timer_noop" =>
         /\ state'.shutdown_timer_enabled = state.shutdown_timer_enabled
         /\ state'.shutdown_timer_end_time = state.shutdown_timer_end_time
         /\ state'.shutdown_timer_duration_minutes
              = state.shutdown_timer_duration_minutes
         /\ state'.snowmelt_enabled = state.snowmelt_enabled
         /\ cached_state' = cached_state
      ]_vars

\* A rejected start_shutdown_timer call on an armed timer.
C19_Witness ==
    /\ last_op = "timer_noop"
    /\ state.shutdown_timer_enabled
    /\ ~IsNone(state.shutdown_timer_end_time)
    /\ state.snowmelt_enabled


\* C13: what read_all() returns is the empty initial batch or the complete
\* batch of one sampling cycle: all its readings were taken in the same cycle.
C13_OneCycleBatch ==
    returned.op = "read_all" =>
        \/ DOMAIN returned.value = {}
        \/ /\ DOMAIN returned.value = {ProbeOrder[k] : k \in DOMAIN ProbeOrder}
           /\ \A a, b \in DOMAIN returned.value :
                 returned.value[a].cycle = returned.value[b].cycle

\* read_all() returned the first cycle's batch while the second cycle had
\* read some probes and not yet all.
C13_Witness ==
    /\ returned.op = "read_all"
    /\ DOMAIN returned.value # {}
    /\ \A a \in DOMAIN returned.value : returned.value[a].cycle = 1
    /\ sensor_mgr.cycle = 2
    /\ sensor_mgr.pc = "read"
    /\ DOMAIN sensor_mgr.new_readings # {}
    /\ sensor_mgr._cached_readings = returned.value


\* C14: whenever the state lock is free, the published snapshot has the
\* fields of the authoritative ControlState.
C14_SnapshotCurrent ==
    state_lock = "free" =>
        /\ cached_state = Some(state)
        /\ Deref(heap, state, cached_ref) = state

\* A tick has changed the state, republished and released the lock.
C14_Witness ==
    /\ state_lock = "free"
    /\ last_op = "tick"
    /\ Len(heap) = MaxCopies
    /\ state # ControlStateInit
    /\ state # heap[Len(heap) - 1]

\* C15: an object get_state() returned has the fields it had when it was
\* returned.
C15_SnapshotImmutable ==
    \A s \in snapshots : Deref(heap, state, s.ref) = s.value

\* A returned snapshot that a later mutation has replaced.
C15_Witness ==
    \E s \in snapshots :
        /\ s.ref # cached_ref
        /\ s.value # state
        /\ state_lock = "free"

\* C16: get_state() never has to take the state lock, so a tick or a setter
\* holding it does not make get_state() wait.
C16_GetStateLockFree ==
    state_lock # "free" =>
        /\ ~get_state_needs_lock(cached_state)
        /\ ENABLED GetState

\* get_state() returned the snapshot of before the tick while the tick held
\* the lock.
C16_Witness ==
    /\ returned.op = "get_state"
    /\ returned.lock = "tick"
    /\ state_lock = "tick"
    /\ returned.value.value # state


\* C18: get_shutdown_timer_remaining() returns None when no timer is armed;
\* with a timer armed it returns a whole number of seconds that is never
\* negative, is 0 at or after the end time, and before the end time is the
\* time that is left with the fraction of a second dropped.
C18_RemainingNonNegative ==
    returned.op = "get_shutdown_timer_remaining" =>
        IF ~returned.armed
          THEN IsNone(returned.value)
          ELSE LET end == Instant(Val(returned.end), 0)
               IN  /\ ~IsNone(returned.value)
                   /\ Val(returned.value) \in Nat
                   /\ returned.at >= end => Val(returned.value) = 0
                   /\ returned.at < end =>
                        /\ Val(returned.value) * TicksPerSecond
                              <= end - returned.at
                        /\ (Val(returned.value) + 1) * TicksPerSecond
                              > end - returned.at

\* A call after the end time of a timer no tick has expired yet.
C18_Witness ==
    /\ returned.op = "get_shutdown_timer_remaining"
    /\ returned.armed
    /\ returned.at > Instant(Val(returned.end), 0)
    /\ returned.value = Some(0)
    /\ state.shutdown_timer_enabled


\* C20: load never raises; it returns the defaults in full when the state
\* file is absent, unreadable or not a mapping, and otherwise each field has
\* the persisted value if the file has the key and the default if not.
C20_LoadNeverRaises ==
    returned.op = "load" =>
        LET defaults == merged_defaults(ConfigDefaults)
            persisted(key) == load_file.kind = "mapping"
                                /\ key \in DOMAIN load_file.data
        IN  /\ ~returned.value.raised
            /\ \A key \in KeySet :
                  Val(returned.value.value)[key].v =
                      IF persisted(key) THEN load_file.data[key].v
                                        ELSE defaults[key].v


\* C21: a record written by _do_save and then loaded, with any defaults, comes
\* back equal in all 8 fields.
C21_RoundTrip ==
    (returned.op = "load" /\ ~IsNone(files.state_file)) =>
        /\ ~returned.value.raised
        /\ \A key \in KeySet :
              Equal(Val(returned.value.value)[key], Val(last_save)[key])


\* C22: a failed read of a probe does not abort the cycle: every published
\* batch has one entry for every configured probe, all taken in one cycle; the
\* entry of a probe whose read failed has valid false, no temperature and a
\* non-empty error, and the entry of a probe that read well is valid.
C22_FailedReadKeepsBatch ==
    LET batch == sensor_mgr._cached_readings
    IN  DOMAIN batch # {} =>
          /\ DOMAIN batch = {ProbeOrder[k] : k \in DOMAIN ProbeOrder}
          /\ \A id \in DOMAIN batch :
                /\ batch[id].cycle = batch["dhw_tank"].cycle
                /\ batch[id].valid <=> batch[id].device = "ok"
                /\ batch[id].valid => ~IsNone(batch[id].temperature_f)
                /\ ~batch[id].valid =>
                      /\ IsNone(batch[id].temperature_f)
                      /\ ~IsNone(batch[id].error)
                      /\ Val(batch[id].error) # ""

\* A published batch in which the fourth probe failed on an unparsable value
\* and the probes read before and after it are valid.
C22_Witness ==
    LET batch == sensor_mgr._cached_readings
    IN  /\ DOMAIN batch # {}
        /\ batch["heat_exchanger_out"].device = "unparsable"
        /\ ~batch["heat_exchanger_out"].valid
        /\ batch["heat_exchanger_in"].valid
        /\ batch["dhw_tank"].valid
        /\ batch["glycol_return"].device = "missing"


\* C23: no failure halts the periodic tick: after an update() that raised, the
\* state lock is free again once the call has ended, and the loop has not
\* stopped unless a shutdown was signalled.
C23_TickSurvives ==
    main_loop.raised > 0 =>
        /\ main_loop.pc # "notify" => state_lock # "tick"
        /\ main_loop.pc = "stopped" => main_loop.signalled


\* C24: for every Setpoints(high_temp, delta_t), low_temp is high_temp minus
\* delta_t: adding delta_t back gives high_temp.  With delta_t zero it is
\* high_temp itself, with delta_t negative it lies above high_temp.
C24_LowTemp ==
    returned.op = "low_temp" =>
        /\ returned.value + returned.delta_t = returned.high_temp
        /\ returned.delta_t = 0 => returned.value = returned.high_temp
        /\ returned.delta_t < 0 => returned.value > returned.high_temp
        /\ returned.delta_t > 0 => returned.value < returned.high_temp

\* low_temp was read on a Setpoints with a negative delta_t.
C24_Witness ==
    /\ returned.op = "low_temp"
    /\ returned.delta_t < 0
    /\ returned.high_temp > 0
    /\ returned.value = returned.high_temp - returned.delta_t


\* C25: with a callback registered, a set_mode call that changes the mode
\* fires exactly one notification, whether or not the energized value changes
\* as well; a set_mode call with the mode already in effect fires none and
\* writes nothing to the pin.
C25_OneNotification ==
    \A i \in DOMAIN rc_calls :
        LET call == rc_calls[i]
        IN  (call.op = "set_mode" /\ call.before.callback) =>
               IF call.after.mode # call.before.mode
                 THEN call.notifies = 1
                 ELSE call.notifies = 0 /\ call.writes = 0


\* C26: after a tick, hx_delta_t is hx_in_temp - hx_out_temp whenever both
\* readings are present, a reading of 0 included, and it is None only when
\* one of the two is missing.
C26_HxDelta ==
    AfterTick(last_op) =>
        IF ~IsNone(state.hx_in_temp) /\ ~IsNone(state.hx_out_temp)
          THEN state.hx_delta_t
                 = Some(Val(state.hx_in_temp) - Val(state.hx_out_temp))
          ELSE IsNone(state.hx_delta_t)


\* What a tick leaves behind when it has evaluated the DHW subsystem.
C27_DhwEvaluated ==
    LET setpoints == dhw_active_setpoints(state)
        tank == state.dhw_tank_temp
        off == state.dhw_state # "heating" /\ ~relay["dhw_pump"].auto_state
    IN  /\ ~state.dhw_enabled => state.dhw_state = "idle" /\ off
        /\ (state.dhw_enabled /\ IsNone(tank)) =>
              state.dhw_state = "error" /\ off
        /\ (state.dhw_enabled /\ ~IsNone(tank)
              /\ Val(tank) >= setpoints.high_temp) =>
              state.dhw_state = "idle" /\ off
        /\ (state.dhw_enabled /\ ~IsNone(tank)
              /\ Val(tank) < setpoints.high_temp
              /\ Val(tank) <= low_temp(setpoints)) =>
              state.dhw_state = "heating" /\ relay["dhw_pump"].auto_state

\* What a tick leaves behind when it has evaluated the snowmelt subsystem.
C27_SnowmeltEvaluated ==
    LET setpoints == state.glycol_setpoints
        return_temp == state.glycol_return_temp
    IN  /\ ~state.snowmelt_enabled =>
              /\ state.snowmelt_state = "idle"
              /\ \A id \in SnowmeltRelays : ~relay[id].auto_state
        /\ state.snowmelt_enabled => relay["glycol_pump"].auto_state
        /\ (state.snowmelt_enabled /\ IsNone(return_temp)) =>
              /\ state.snowmelt_state = "error"
              /\ ~relay["primary_pump"].auto_state
              /\ ~relay["bypass_valve"].auto_state

\* C27: a tick with a relay of one subsystem not configured skips that
\* subsystem's control action: its state and the auto-desired of its
\* configured relays stay as they were; the other subsystem is evaluated and
\* the snapshot published in the same tick.
C27_MissingRelaySkipped ==
    [][AfterTick(last_op') =>
         /\ cached_state' = Some(state')
         /\ DOMAIN relay' = DOMAIN relay
         /\ (\E id \in SnowmeltRelays : ~HasRelay(relay, id)) =>
               /\ state'.snowmelt_state = state.snowmelt_state
               /\ \A id \in SnowmeltRelays \cap DOMAIN relay :
                     relay'[id].auto_state = relay[id].auto_state
               /\ C27_DhwEvaluated'
         /\ ~HasRelay(relay, "dhw_pump") =>
               /\ state'.dhw_state = state.dhw_state
               /\ C27_SnowmeltEvaluated'
      ]_vars

\* After a tick without the primary pump configured: snowmelt is enabled with
\* no return reading, yet its state is still the initial IDLE and the glycol
\* pump not desired, while the DHW subsystem went to ERROR on its missing
\* reading and the snapshot shows it.
C27_Witness ==
    /\ AfterTick(last_op)
    /\ ~HasRelay(relay, "primary_pump")
    /\ state.snowmelt_enabled
    /\ IsNone(state.glycol_return_temp)
    /\ state.snowmelt_state = "idle"
    /\ ~relay["glycol_pump"].auto_state
    /\ state.dhw_enabled
    /\ state.dhw_state = "error"
    /\ cached_state = Some(state)


\* C28: set_equipment_mode calls the relay layer without the state lock: the
\* call can run whoever holds the lock and leaves the lock as it is; it sets
\* the mode of the relay named and of no other, and with an id that names no
\* relay it changes none.
C28_RelayCallOutsideLock ==
    [][/\ eq_call.pc = "idle" => ENABLED EqSetMode
       /\ (eq_call.pc = "idle" /\ eq_call'.pc = "notify") =>
             /\ state_lock' = state_lock
             /\ DOMAIN relay' = DOMAIN relay
             /\ \A id \in DOMAIN relay :
                   IF id = eq_call'.equipment_id
                     THEN relay'[id].mode = eq_call'.mode
                     ELSE relay'[id] = relay[id]
      ]_vars

\* The relay call of set_equipment_mode("dhw_pump", ON) ran while the tick
\* held the state lock, which it still holds; the pump is ON and energized.
C28_Witness ==
    /\ eq_call.pc = "notify"
    /\ eq_call.lock_seen = "tick"
    /\ state_lock = "tick"
    /\ eq_call.equipment_id = "dhw_pump"
    /\ relay["dhw_pump"].mode = "on"
    /\ relay["dhw_pump"].is_energized


\* C29: once shutdown() has set the stop signal the sampling loop terminates;
\* no cycle starts after the signal, so at most one batch is published after
\* it, that of the cycle that was in progress; and the loop ends only on the
\* stop signal, not on an exception inside a cycle.
C29_StopTerminates ==
    /\ [](sensor_mgr.pc = "terminated" => sensor_mgr._stop_event)
    /\ [](sensor_mgr.late_publishes <= 1)
    /\ [][sensor_mgr._stop_event =>
            /\ sensor_mgr'.cycle = sensor_mgr.cycle
            /\ sensor_mgr'._cached_readings # sensor_mgr._cached_readings =>
                  /\ Val(sensor_mgr.stopped_at).pc \in {"read", "publish"}
                  /\ \A id \in DOMAIN sensor_mgr'._cached_readings :
                        sensor_mgr'._cached_readings[id].cycle
                          = Val(sensor_mgr.stopped_at).cycle
         ]_vars
    /\ (sensor_mgr._stop_event ~> sensor_mgr.pc = "terminated")

\* The first cycle ended in an exception and the loop went on; shutdown() set
\* the stop signal while the second cycle was reading its probes; that batch
\* was published and the loop has returned.
C29_Witness ==
    /\ sensor_mgr.pc = "terminated"
    /\ sensor_mgr.raised = 1
    /\ ~IsNone(sensor_mgr.stopped_at)
    /\ Val(sensor_mgr.stopped_at).pc = "read"
    /\ Val(sensor_mgr.stopped_at).cycle = 2
    /\ sensor_mgr.late_publishes = 1
    /\ DOMAIN sensor_mgr._cached_readings # {}


\* C30: no interleaving of the threads reaches a deadlock: no set of threads
\* each waits for a lock held in the set, and the locks are never taken in a
\* cyclic order (no lock is taken under another that was taken under it).
C30_NoDeadlock ==
    /\ \A S \in SUBSET ThreadIds :
          S # {} => \E t \in S : WaitsFor(t) = {} \/ ~(WaitsFor(t) \subseteq S)
    /\ \A pair \in lock_order :
          /\ pair[1] # pair[2]
          /\ <<pair[2], pair[1]>> \notin lock_order
          /\ pair[1] = "state_lock"

\* The tick holds the state lock and a relay's lock under it while a setter
\* and the set_equipment_mode caller wait for the state lock, the sampling
\* thread holds the sensors' lock and the timer thread the persistence lock.
C30_Witness ==
    /\ HeldBy("tick") = {"state_lock", "dhw_pump_lock"}
    /\ WaitsFor("setter_a") = {"tick"}
    /\ WaitsFor("equipment") = {"tick"}
    /\ HeldBy("sampler") = {"sensors_lock"}
    /\ HeldBy("timer") = {"persistence_lock"}
    /\ <<"state_lock", "persistence_lock">> \in lock_order
    /\ <<"state_lock", "valve_lock">> \in lock_order


\* The state of each subsystem and the auto-desired values of its relays
\* agree.
Coupled ==
    /\ (state.snowmelt_state = "heating") <=>
          (AutoDesired("primary_pump") /\ AutoDesired("bypass_valve"))
    /\ AutoDesired("primary_pump") = AutoDesired("bypass_valve")
    /\ AutoDesired("glycol_pump") = state.snowmelt_enabled
    /\ (state.dhw_state = "heating") <=> AutoDesired("dhw_pump")

\* C31 as stated: at the end of every tick's evaluation (the tick still holds
\* the state lock, so no setter has run since) the states and the
\* auto-desired values agree.
C31_Original == main_loop.pc = "notify" => Coupled

\* C31: with all relays configured, at the end of the evaluation of every
\* tick that RelayManager.shutdown() has not overtaken: snowmelt_state is
\* HEATING iff primary pump and bypass valve auto-desired are both true, the
\* two are equal, glycol pump auto-desired equals snowmelt_enabled, and
\* dhw_state is HEATING iff the DHW pump auto-desired is true.
C31_CoupledBeforeShutdown ==
    (main_loop.pc = "notify" /\ rm_shutdown.pc = "unused") => Coupled

\* A tick has ended its evaluation with DHW heating, and with snowmelt kept in
\* HEATING by the hold branch (the glycol return inside the deadband).
C31_Witness ==
    /\ main_loop.pc = "notify"
    /\ rm_shutdown.pc = "unused"
    /\ state.snowmelt_enabled
    /\ state.snowmelt_state = "heating"
    /\ AutoDesired("primary_pump") /\ AutoDesired("glycol_pump")
    /\ ~IsNone(state.glycol_return_temp)
    /\ Val(state.glycol_return_temp) > low_temp(state.glycol_setpoints)
    /\ Val(state.glycol_return_temp) < state.glycol_setpoints.high_temp
    /\ state.dhw_state = "heating"
    /\ AutoDesired("dhw_pump")


\* C32: in every result of get_all_states(), taken between ticks or in the
\* middle of one, primary pump auto-desired true implies glycol pump
\* auto-desired true.
C32_HeatImpliesCirculation ==
    returned.op = "get_all_states" =>
        (returned.value["primary_pump"].auto_state
           => returned.value["glycol_pump"].auto_state)


\* The fields of self.state that only setters assign.
SetterFields(st) ==
    <<st.glycol_setpoints, st.dhw_setpoints, st.eco_setpoints,
      st.eco_start, st.eco_end, st.eco_enabled, st.dhw_enabled>>

\* C33: a step of a tick leaves the three setpoint sets, the eco schedule,
\* eco_enabled and dhw_enabled as they are, and changes snowmelt_enabled only
\* from true to false with the shutdown timer armed and its end time reached;
\* while the tick holds the state lock no setter changes a field, so a value
\* set before the tick took the lock, or after it released it, is the value
\* found when both have returned; the snapshot the tick publishes carries the
\* setters' values.
C33_TickFrame ==
    [][/\ tick_call' # tick_call =>
            /\ SetterFields(state') = SetterFields(state)
            /\ state'.snowmelt_enabled # state.snowmelt_enabled =>
                  /\ state.snowmelt_enabled
                  /\ state.shutdown_timer_enabled
                  /\ ~IsNone(state.shutdown_timer_end_time)
                  /\ now >= Val(state.shutdown_timer_end_time)
       /\ state_lock = "tick" =>
            /\ SetterFields(state') = SetterFields(state)
            /\ state'.snowmelt_enabled = state.snowmelt_enabled
            /\ state_lock' = "free" =>
                  /\ SetterFields(Val(cached_state')) = SetterFields(state)
                  /\ Val(cached_state').snowmelt_enabled
                        = state.snowmelt_enabled]_vars

\* A tick has expired the shutdown timer and holds the state lock, with
\* setpoints and an eco flag that setters stored before it.
C33_Witness ==
    /\ state_lock = "tick"
    /\ last_op = "tick_expired"
    /\ ~state.snowmelt_enabled
    /\ state.glycol_setpoints = Setpoints(2, 1)
    /\ ~state.eco_enabled
    /\ state.dhw_enabled


\* C34: a call of set_snowmelt_enabled, set_dhw_enabled, set_eco_enabled, a
\* set_*_setpoints, set_eco_schedule, start_shutdown_timer or
\* cancel_shutdown_timer leaves every relay (auto-desired, mode, energized,
\* pin) and snowmelt_state, dhw_state and eco_active as they were.
C34_SettersLeaveOutputs ==
    [][last_op' \in {"setter", "timer_noop"} =>
          /\ relay' = relay
          /\ state'.snowmelt_state = state.snowmelt_state
          /\ state'.dhw_state = state.dhw_state
          /\ state'.eco_active = state.eco_active]_vars

\* set_snowmelt_enabled(False) has returned on a heating snowmelt system, and
\* set_eco_enabled(False) with eco mode active: the relays still hold the auto
\* state of the last tick.
C34_Witness ==
    /\ last_op = "setter"
    /\ ~state.snowmelt_enabled
    /\ state.snowmelt_state = "heating"
    /\ AutoDesired("glycol_pump")
    /\ AutoDesired("primary_pump") /\ Energized("primary_pump")
    /\ AutoDesired("bypass_valve")
    /\ ~state.eco_enabled
    /\ state.eco_active


\* A record passed to save() holds the eight persisted fields of a state.
PassedIsState(passed, st) ==
    /\ passed.glycol_high_temp = st.glycol_setpoints.high_temp
    /\ passed.glycol_delta_t = st.glycol_setpoints.delta_t
    /\ passed.dhw_high_temp = st.dhw_setpoints.high_temp
    /\ passed.dhw_delta_t = st.dhw_setpoints.delta_t
    /\ passed.eco_high_temp = st.eco_setpoints.high_temp
    /\ passed.eco_delta_t = st.eco_setpoints.delta_t
    /\ passed.eco_start = st.eco_start
    /\ passed.eco_end = st.eco_end
    /\ DOMAIN passed = {"glycol_high_temp", "glycol_delta_t", "dhw_high_temp",
                        "dhw_delta_t", "eco_high_temp", "eco_delta_t",
                        "eco_start", "eco_end"}

\* C35: whenever the state lock is free and save() has been called, the record
\* most recently passed to save() is the eight persisted fields of self.state;
\* save() is called by a saving setter at its _save_setpoints and by no other
\* handler.
C35_SavedIsCurrent ==
    [][/\ (state_lock' = "free" /\ ~IsNone(setter_call'.passed)) =>
              PassedIsState(Val(setter_call'.passed), state')
       /\ n_saves' # n_saves =>
              \E c \in SetterCallers :
                  setter_call.pc[c] = "save" /\ setter_call'.pc[c] = "notify"
      ]_vars

\* Both callers have saved, the second a different record, other handlers and
\* a tick have run since, and the lock is free.
C35_Witness ==
    /\ state_lock = "free"
    /\ n_saves >= 2
    /\ AfterTick(last_op)
    /\ ~IsNone(setter_call.passed)
    /\ Val(setter_call.passed).glycol_high_temp = 2
    /\ Val(setter_call.passed).eco_start = <<0, 1>>
    /\ state.snowmelt_enabled



\* C36: a call of get_shutdown_timer_remaining() that runs concurrently with
\* cancel_shutdown_timer or with a tick that expires the timer returns None
\* or a non-negative integer and never raises.
C36_RemainingNeverRaises ==
    returned.op = "remaining" =>
        /\ ~returned.raised
        /\ IsNone(returned.value) \/ Val(returned.value) >= 0



\* The sampling loop has not yet published a batch: it has not started a
\* cycle, or is still inside its first.
NoBatchPublished ==
    \/ sensor_mgr.cycle = 0
    \/ sensor_mgr.cycle = 1 /\ sensor_mgr.pc \in {"read", "publish"}

\* C37: until the sampling loop has published its first batch read_all()
\* returns an empty map, and a tick in that period leaves all five
\* temperatures None, every enabled subsystem in ERROR and the primary pump,
\* bypass valve and DHW pump auto-desired false.
C37_NoHeatBeforeFirstBatch ==
    NoBatchPublished =>
        /\ DOMAIN read_all(sensor_mgr) = {}
        /\ AfterTick(last_op) =>
             /\ IsNone(state.glycol_return_temp)
             /\ IsNone(state.glycol_supply_temp)
             /\ IsNone(state.hx_in_temp)
             /\ IsNone(state.hx_out_temp)
             /\ IsNone(state.dhw_tank_temp)
             /\ state.snowmelt_enabled => state.snowmelt_state = "error"
             /\ state.dhw_enabled => state.dhw_state = "error"
             /\ ~relay["primary_pump"].auto_state
             /\ ~relay["bypass_valve"].auto_state
             /\ ~relay["dhw_pump"].auto_state

\* Both subsystems enabled and a tick has run while the first cycle has read
\* every probe, the control probes validly, but not yet published.
C37_Witness ==
    /\ sensor_mgr.cycle = 1
    /\ sensor_mgr.pc = "publish"
    /\ sensor_mgr.new_readings["glycol_return"].valid
    /\ sensor_mgr.new_readings["dhw_tank"].valid
    /\ AfterTick(last_op)
    /\ state.snowmelt_enabled
    /\ state.dhw_enabled
    /\ state.snowmelt_state = "error"
    /\ state.dhw_state = "error"
    /\ relay["glycol_pump"].auto_state



\* The setpoints the DHW branch of the last tick compared against.
DhwSetpointsUsed ==
    IF state.eco_active THEN state.eco_setpoints ELSE state.dhw_setpoints

\* C38: with delta_t <= 0 and a valid reading, a tick of an enabled subsystem
\* never holds: at or above high_temp it leaves BYPASS (snowmelt) or IDLE
\* (DHW) with the heat outputs' auto-desired false, the temperatures that are
\* also <= low_temp included, and below high_temp it leaves HEATING with them
\* true.
C38_NoHoldWithoutDeadband ==
    AfterTick(last_op) =>
        /\ (/\ state.snowmelt_enabled
            /\ state.glycol_setpoints.delta_t <= 0
            /\ ~IsNone(state.glycol_return_temp)) =>
               IF Val(state.glycol_return_temp) >=
                      state.glycol_setpoints.high_temp
                 THEN /\ state.snowmelt_state = "bypass"
                      /\ ~relay["primary_pump"].auto_state
                      /\ ~relay["bypass_valve"].auto_state
                 ELSE /\ state.snowmelt_state = "heating"
                      /\ relay["primary_pump"].auto_state
                      /\ relay["bypass_valve"].auto_state
        /\ (/\ state.dhw_enabled
            /\ DhwSetpointsUsed.delta_t <= 0
            /\ ~IsNone(state.dhw_tank_temp)) =>
               IF Val(state.dhw_tank_temp) >= DhwSetpointsUsed.high_temp
                 THEN /\ state.dhw_state = "idle"
                      /\ ~relay["dhw_pump"].auto_state
                 ELSE /\ state.dhw_state = "heating"
                      /\ relay["dhw_pump"].auto_state

\* A tick with delta_t < 0 in both subsystems and both
\* temperatures at once >= high_temp and <= low_temp: the outputs are off.
C38_Witness ==
    /\ AfterTick(last_op)
    /\ state.snowmelt_enabled /\ state.dhw_enabled
    /\ state.glycol_setpoints = Setpoints(2, -1)
    /\ ~state.eco_active
    /\ state.dhw_setpoints = Setpoints(2, -1)
    /\ state.glycol_return_temp = Some(3)
    /\ state.dhw_tank_temp = Some(3)
    /\ state.snowmelt_state = "bypass"
    /\ state.dhw_state = "idle"
    /\ ~relay["primary_pump"].auto_state
    /\ ~relay["dhw_pump"].auto_state



\* C39: in every published snapshot, eco_active is true only if eco_enabled
\* is true.
C39_EcoActiveOnlyIfEnabled ==
    ~IsNone(cached_state) =>
        (Val(cached_state).eco_active => Val(cached_state).eco_enabled)



\* C40: once RelayManager.shutdown() has returned every relay has mode OFF and
\* is de-energized, whatever the later ticks ask for; once
\* SetpointPersistence.shutdown() has set _shutdown no timer is armed, and a
\* save() call then changes neither the store nor the files on disk.
C40_ShutdownsStay ==
    [][/\ rm_shutdown'.pc = "done" =>
            \A id \in DOMAIN relay' :
                /\ relay'[id].mode = "off"
                /\ ~relay'[id].is_energized
                /\ relay'[id].gpio = (IF ACTIVE_LOW THEN "HIGH" ELSE "LOW")
       /\ persistence'._shutdown =>
            /\ IsNone(persistence'._save_timer)
            /\ \A i \in TimerIds : persistence'.timers[i].pc # "waiting"
       /\ (persistence._shutdown /\ n_saves' # n_saves) =>
            (persistence' = persistence /\ files' = files)
      ]_vars

\* RelayManager.shutdown() has returned after the system was heating, a later
\* tick has asked for heat again and the primary pump is still off; the store
\* was shut down with a save pending, and save() has been called since.
C40_Witness ==
    /\ rm_shutdown.pc = "done"
    /\ AfterTick(last_op)
    /\ state.snowmelt_state = "heating"
    /\ relay["primary_pump"].auto_state
    /\ relay["primary_pump"].mode = "off"
    /\ ~relay["primary_pump"].is_energized
    /\ persistence._shutdown
    /\ shutdown_call.pc = "done"
    /\ n_saves >= 2
    /\ ~IsNone(last_save)

=============================================================================
